---- MODULE Spec2Model ----
(***************************************************************************)
(* cquver: the generator of NestJS DDD/CQRS boilerplate.                   *)
(*                                                                         *)
(* The model covers GeneratorService (initializeService, generate),        *)
(* ModuleManagerService (updateTypeIndex, updateServiceModule and their    *)
(* helpers) and the naming utilities of utils.ts.                          *)
(*                                                                         *)
(* Text is modelled as a sequence of lexemes (strings): a name is a        *)
(* sequence of one-character strings, a file is a sequence of lexemes at   *)
(* the granularity the regular expressions of the code tell apart (an      *)
(* import statement, a bracket, a run of white space, an identifier).      *)
(*                                                                         *)
(* Paths are relative to apps/<app>, the layout GeneratorService and the   *)
(* tests use: a path is a sequence of segments, a segment a sequence of    *)
(* lexemes. The module manager's paths are placed in that same layout.     *)
(***************************************************************************)
EXTENDS Integers, Sequences, FiniteSets, TLC

(***************************************************************************)
(* Characters                                                              *)
(***************************************************************************)
LowerSeq ==
  <<"a","b","c","d","e","f","g","h","i","j","k","l","m",
    "n","o","p","q","r","s","t","u","v","w","x","y","z">>

UpperSeq ==
  <<"A","B","C","D","E","F","G","H","I","J","K","L","M",
    "N","O","P","Q","R","S","T","U","V","W","X","Y","Z">>

Range(s) == {s[i] : i \in DOMAIN s}

LowerChars == Range(LowerSeq)
UpperChars == Range(UpperSeq)
DigitChars == {"0","1","2","3","4","5","6","7","8","9"}

\* \w of the regular expressions: [A-Za-z0-9_]
WordChars == LowerChars \cup UpperChars \cup DigitChars \cup {"_"}

\* [-_\s] of toPascalCase
Separators == {"-", "_", " "}

IndexIn(c, s) == CHOOSE i \in DOMAIN s : s[i] = c

\* one letter from outside ASCII, the Greek sigma: its capital, its small form
\* and the small form it takes at the end of a word
CapitalSigma == "U+03A3"
SmallSigma == "U+03C3"
FinalSigma == "U+03C2"

\* the characters with a case
CasedChars == LowerChars \cup UpperChars \cup {CapitalSigma, SmallSigma, FinalSigma}

\* String.prototype.toUpperCase and toLowerCase of one character
toUpperCase(c) ==
  IF c \in LowerChars THEN UpperSeq[IndexIn(c, LowerSeq)]
  ELSE IF c \in {SmallSigma, FinalSigma} THEN CapitalSigma
  ELSE c
toLowerCase(c) ==
  IF c \in UpperChars THEN LowerSeq[IndexIn(c, UpperSeq)]
  ELSE IF c = CapitalSigma THEN SmallSigma
  ELSE c

\* String.prototype.toLowerCase of a string: letter by letter, but a capital
\* sigma that ends a word (a cased letter before it, none after it) becomes
\* the final sigma (Unicode SpecialCasing, Final_Sigma)
LowerAll(s) ==
  [i \in DOMAIN s |->
     IF s[i] = CapitalSigma /\ i > 1 /\ s[i - 1] \in CasedChars
          /\ ~(i < Len(s) /\ s[i + 1] \in CasedChars)
     THEN FinalSigma
     ELSE toLowerCase(s[i])]

RECURSIVE Flatten(_)
Flatten(ss) == IF ss = <<>> THEN <<>> ELSE Head(ss) \o Flatten(Tail(ss))

EndsWith(s, suf) ==
  /\ Len(suf) <= Len(s)
  /\ SubSeq(s, Len(s) - Len(suf) + 1, Len(s)) = suf

(***************************************************************************)
(* utils.ts                                                                *)
(***************************************************************************)
\* .replace(/([a-z0-9])([A-Z])/g, '$1-$2')
RECURSIVE DashLowerUpper(_)
DashLowerUpper(s) ==
  IF Len(s) < 2 THEN s
  ELSE IF s[1] \in (LowerChars \cup DigitChars) /\ s[2] \in UpperChars
       THEN <<s[1], "-">> \o DashLowerUpper(Tail(s))
       ELSE <<s[1]>> \o DashLowerUpper(Tail(s))

\* .replace(/([A-Z])([A-Z][a-z])/g, '$1-$2')
RECURSIVE DashAcronym(_)
DashAcronym(s) ==
  IF Len(s) < 3 THEN s
  ELSE IF s[1] \in UpperChars /\ s[2] \in UpperChars /\ s[3] \in LowerChars
       THEN <<s[1], "-">> \o DashAcronym(Tail(s))
       ELSE <<s[1]>> \o DashAcronym(Tail(s))

toKebabCase(str) ==
  LET lowered == LowerAll(DashAcronym(DashLowerUpper(str)))
  IN IF lowered # <<>> /\ lowered[1] = "-" THEN Tail(lowered) ELSE lowered

\* a test that every string passes
AnyString(str) == TRUE

\* /^[A-Z][a-zA-Z0-9]*$/.test(str)
IsPascal(str) ==
  /\ str # <<>>
  /\ str[1] \in UpperChars
  /\ \A i \in DOMAIN str : str[i] \in (LowerChars \cup UpperChars \cup DigitChars)

\* str.split(sep): the words between the separators, empty words included
RECURSIVE SplitOn(_, _, _)
SplitOn(s, seps, word) ==
  IF s = <<>> THEN <<word>>
  ELSE IF s[1] \in seps THEN <<word>> \o SplitOn(Tail(s), seps, <<>>)
       ELSE SplitOn(Tail(s), seps, Append(word, s[1]))

\* word.charAt(0).toUpperCase() + word.slice(1).toLowerCase()
CapitalizeLower(word) ==
  IF word = <<>> THEN <<>> ELSE <<toUpperCase(word[1])>> \o LowerAll(Tail(word))

toPascalCase(str) ==
  IF IsPascal(str) THEN str
  ELSE LET words == SplitOn(str, Separators, <<>>)
       IN Flatten([i \in DOMAIN words |-> CapitalizeLower(words[i])])

\* the suffix appended without the test
AppendSuffix(name, suffix) == name \o suffix

ensureSuffix(name, suffix) ==
  IF EndsWith(LowerAll(name), LowerAll(suffix)) THEN name ELSE name \o suffix

HandlerWord == <<"H","a","n","d","l","e","r">>

generateHandlerName(className) == className \o HandlerWord

(***************************************************************************)
(* Lexemes of a module file                                                *)
(***************************************************************************)
NL == "\n"

\* \s of the regular expressions: the white-space lexemes
WhiteSpace == {" ", "  ", "    ", NL}

ImpCommands == "import { CommandHandlers } from './application/commands';"
ImpEvents == "import { EventHandlers } from './application/events';"
ImpQueries == "import { QueryHandlers } from './application/queries';"
ImpModule == "import { Module } from '@nestjs/common';"
ImpCqrs == "import { CqrsModule } from '@nestjs/cqrs';"
ImpFoo == "import { FooService } from './foo.service';"
ImpBar == "import { BarService } from './bar.service';"

\* the lexemes /import.*from.*['""];/ matches (one statement on one line)
ImportStatements ==
  {ImpCommands, ImpEvents, ImpQueries, ImpModule, ImpCqrs, ImpFoo, ImpBar}

\* updateModuleContent: const imports = [...]
AggregateImports == <<ImpCommands, ImpEvents, ImpQueries>>

\* updateModuleContent: const handlerArrays = [...]
HandlerArrays == <<"...CommandHandlers", "...EventHandlers", "...QueryHandlers">>

SetMax(S) == CHOOSE x \in S : \A y \in S : y <= x
SetMin(S) == CHOOSE x \in S : \A y \in S : x <= y

\* a presence check that never finds the lexeme
IncludesNever(content, lexeme) == FALSE

\* String.prototype.includes, on lexemes
Includes(content, lexeme) == \E i \in DOMAIN content : content[i] = lexeme

\* String.prototype.trim, on lexemes
RECURSIVE TrimLeft(_)
TrimLeft(s) ==
  IF s # <<>> /\ s[1] \in WhiteSpace THEN TrimLeft(Tail(s)) ELSE s

RECURSIVE TrimRight(_)
TrimRight(s) ==
  IF s # <<>> /\ s[Len(s)] \in WhiteSpace
  THEN TrimRight(SubSeq(s, 1, Len(s) - 1)) ELSE s

Trim(s) == TrimLeft(TrimRight(s))

\* .replace(/,$/, '')
StripTrailingComma(s) ==
  IF s # <<>> /\ s[Len(s)] = "," THEN SubSeq(s, 1, Len(s) - 1) ELSE s

Splice(content, from, to, replacement) ==
  SubSeq(content, 1, from - 1) \o replacement \o SubSeq(content, to + 1, Len(content))

(***************************************************************************)
(* ModuleManagerService.updateModuleContent                                *)
(***************************************************************************)
\* updatedContent.match(/import.*from.*['""];/g): the positions of the matches
ImportMatches(content) == {i \in DOMAIN content : content[i] \in ImportStatements}

\* one round of the "Add missing imports" loop
AddImport(content, importStatement) ==
  IF Includes(content, importStatement) THEN content
  ELSE IF ImportMatches(content) # {}
       THEN LET lastImport == content[SetMax(ImportMatches(content))]
                \* String.replace with a string pattern: the first occurrence
                at == SetMin({i \in DOMAIN content : content[i] = lastImport})
            IN Splice(content, at, at, <<lastImport, NL, importStatement>>)
       ELSE <<importStatement, NL, NL>> \o content

\* the index of "[" when content holds  providers:\s*\[  at position i, else 0
RECURSIVE SkipWhite(_, _)
SkipWhite(content, k) ==
  IF k <= Len(content) /\ content[k] \in WhiteSpace
  THEN SkipWhite(content, k + 1) ELSE k

OpenAt(content, i) ==
  IF content[i] # "providers:" THEN 0
  ELSE LET k == SkipWhite(content, i + 1)
       IN IF k <= Len(content) /\ content[k] = "[" THEN k ELSE 0

\* the starts of /providers:\s*\[([\s\S]*?)\]/
ProvidersStarts(content) ==
  {i \in DOMAIN content :
     /\ OpenAt(content, i) # 0
     /\ \E j \in DOMAIN content : j > OpenAt(content, i) /\ content[j] = "]"}

\* the leftmost match, the lazy group ending at the first "]"
ProvidersMatch(content) ==
  LET i == SetMin(ProvidersStarts(content))
      k == OpenAt(content, i)
      j == SetMin({x \in DOMAIN content : x > k /\ content[x] = "]"})
  IN [start |-> i, open |-> k, close |-> j]

\* the starts of /@Module\(\{([\s\S]*?)\}\)/
ModuleStarts(content) ==
  {i \in DOMAIN content :
     /\ content[i] = "@Module({"
     /\ \E j \in DOMAIN content : j > i /\ content[j] = "})"}

ModuleMatch(content) ==
  LET i == SetMin(ModuleStarts(content))
      j == SetMin({x \in DOMAIN content : x > i /\ content[x] = "})"})
  IN [start |-> i, close |-> j]

\* const newProvidersContent = providersContent ? ... : ...
NewProvidersContent(providersContent, handlerArray) ==
  IF providersContent # <<>>
  THEN StripTrailingComma(providersContent) \o <<",", NL, "    ", handlerArray, ",">>
  ELSE <<NL, "    ", handlerArray, ",", NL, "  ">>

\* one round of the "Add handler arrays to providers" loop
AddHandlerArray(content, handlerArray) ==
  IF Includes(content, handlerArray) THEN content
  ELSE IF ProvidersStarts(content) # {}
  THEN LET m == ProvidersMatch(content)
           providersContent == Trim(SubSeq(content, m.open + 1, m.close - 1))
           newProvidersContent == NewProvidersContent(providersContent, handlerArray)
       IN IF Includes(providersContent, handlerArray) THEN content
          ELSE Splice(content, m.start, m.close,
                      <<"providers:", " ", "[">> \o newProvidersContent \o <<"]">>)
  ELSE IF ModuleStarts(content) # {}
  THEN LET m == ModuleMatch(content)
           moduleContent == SubSeq(content, m.start + 1, m.close - 1)
           newModuleContent ==
             IF Includes(moduleContent, "providers:") THEN moduleContent
             ELSE Trim(moduleContent)
                    \o <<",", NL, "  ", "providers:", " ", "[", NL, "    ",
                         handlerArray, ",", NL, "  ", "]", ",">>
       IN Splice(content, m.start, m.close,
                 <<"@Module({">> \o newModuleContent \o <<"})">>)
  ELSE content

RECURSIVE AddImports(_, _)
AddImports(content, statements) ==
  IF statements = <<>> THEN content
  ELSE AddImports(AddImport(content, Head(statements)), Tail(statements))

RECURSIVE AddHandlerArrays(_, _)
AddHandlerArrays(content, arrays) ==
  IF arrays = <<>> THEN content
  ELSE AddHandlerArrays(AddHandlerArray(content, Head(arrays)), Tail(arrays))

updateModuleContent(content) ==
  AddHandlerArrays(AddImports(content, AggregateImports), HandlerArrays)

(***************************************************************************)
(* ModuleManagerService.generateNewModuleContent                           *)
(***************************************************************************)
ModuleWord == <<"M","o","d","u","l","e">>

\* word.charAt(0).toUpperCase() + word.slice(1)
CapitalizeFirst(word) ==
  IF word = <<>> THEN <<>> ELSE <<toUpperCase(word[1])>> \o Tail(word)

\* appName.split('-').map(...).join('') + 'Module'
ModuleClassName(appName) ==
  LET words == SplitOn(appName, {"-"}, <<>>)
  IN Flatten([i \in DOMAIN words |-> CapitalizeFirst(words[i])]) \o ModuleWord

generateNewModuleContent(appName) ==
  <<ImpModule, NL, ImpCqrs, NL, ImpCommands, NL, ImpEvents, NL, ImpQueries, NL,
    NL,
    "@Module({", NL,
    "  ", "imports:", " ", "[", "CqrsModule", "]", ",", NL,
    "  ", "providers:", " ", "[", NL,
    "    ", "...CommandHandlers", ",", NL,
    "    ", "...EventHandlers", ",", NL,
    "    ", "...QueryHandlers", ",", NL,
    "  ", "]", ",", NL,
    "})", NL,
    "export class ">> \o ModuleClassName(appName) \o <<" {}", NL>>

(***************************************************************************)
(* The file system under apps/<app>                                        *)
(***************************************************************************)
Seg(lexeme) == <<lexeme>>

DirNode == [type |-> "dir", content |-> <<>>]
FileNode(content) == [type |-> "file", content |-> content]

Exists(f, p) == p \in DOMAIN f
IsDir(f, p) == Exists(f, p) /\ f[p].type = "dir"
IsFile(f, p) == Exists(f, p) /\ f[p].type = "file"

Parent(p) == SubSeq(p, 1, Len(p) - 1)
Prefixes(p) == {SubSeq(p, 1, n) : n \in 0..Len(p)}

\* Deno.mkdir(path, { recursive: true }) succeeds unless a segment is a file
CanMkdir(f, p) == \A q \in Prefixes(p) : Exists(f, q) => IsDir(f, q)

Mkdir(f, p) ==
  [q \in DOMAIN f \cup Prefixes(p) |-> IF q \in DOMAIN f THEN f[q] ELSE DirNode]

\* Deno.writeTextFile creates or truncates a file in an existing directory
CanWrite(f, p) == p # <<>> /\ IsDir(f, Parent(p)) /\ ~IsDir(f, p)

\* a write that leaves an existing file as it is
WriteIfAbsent(f, p, content) ==
  [q \in DOMAIN f \cup {p} |-> IF q \in DOMAIN f THEN f[q] ELSE FileNode(content)]

Write(f, p, content) ==
  [q \in DOMAIN f \cup {p} |-> IF q = p THEN FileNode(content) ELSE f[q]]

(***************************************************************************)
(* GeneratorService: the tables of the kinds                               *)
(***************************************************************************)
Kinds == {"command", "event", "query"}

\* the kinds without a handler
PlainKinds == {"service", "usecase"}

AllKinds == Kinds \cup PlainKinds

getSuffix(type) ==
  CASE type = "event" -> <<"E","v","e","n","t">>
    [] type = "command" -> <<"C","o","m","m","a","n","d">>
    [] type = "query" -> <<"Q","u","e","r","y">>
    [] type = "service" -> <<"S","e","r","v","i","c","e">>
    [] type = "usecase" -> <<"U","s","e","C","a","s","e">>

getTypeFolderName(type) ==
  CASE type = "event" -> "events"
    [] type = "command" -> "commands"
    [] type = "query" -> "queries"
    [] type = "service" -> "services"
    [] type = "usecase" -> "usecases"

\* every kind under the application layer
LayerAlwaysApplication(type) == "application"

getLayerPath(type) == IF type = "service" THEN "domain" ELSE "application"

\* the characters of the type, for type.charAt(0).toUpperCase() + type.slice(1)
TypeWord(type) ==
  CASE type = "event" -> <<"e","v","e","n","t">>
    [] type = "command" -> <<"c","o","m","m","a","n","d">>
    [] type = "query" -> <<"q","u","e","r","y">>

SrcPath == <<Seg("src")>>

TypePath(type) ==
  <<Seg("src"), Seg(getLayerPath(type)), Seg(getTypeFolderName(type))>>

\* normalize of std/path: an empty or "." segment is dropped, a ".." segment
\* takes the segment before it away (the app folder is the root here)
RECURSIVE NormalizeOnto(_, _)
NormalizeOnto(base, segments) ==
  IF segments = <<>> THEN base
  ELSE IF Head(segments) \in {<<>>, <<".">>} THEN NormalizeOnto(base, Tail(segments))
  ELSE IF Head(segments) = <<".", ".">>
       THEN NormalizeOnto(IF base = <<>> THEN base ELSE Parent(base), Tail(segments))
  ELSE NormalizeOnto(Append(base, Head(segments)), Tail(segments))

\* join(base, rel) of std/path: rel is cut at its separators and the whole
\* path is normalized
join(base, rel) == NormalizeOnto(base, SplitOn(rel, {"/"}, <<>>))

BasePath(type, folderName) == join(TypePath(type), folderName)

MainFilePath(type, folderName, baseFileName) ==
  join(BasePath(type, folderName), baseFileName \o <<".", type, ".ts">>)

HandlerFilePath(type, folderName, baseFileName) ==
  join(BasePath(type, folderName), baseFileName \o <<".handler.ts">>)

IndexFilePath(type, folderName) == Append(BasePath(type, folderName), Seg("index.ts"))

TypeIndexPath(type) == Append(TypePath(type), Seg("index.ts"))

ModulePath(appName) == <<Seg("src"), appName \o <<".module.ts">>>>

(***************************************************************************)
(* Templates                                                               *)
(***************************************************************************)
eventTemplate(className) ==
  <<"import { IEvent } from '@nestjs/cqrs';", NL, NL, "export class ">>
    \o className \o <<" implements ", "IEvent", " {", NL, "}", NL>>

eventHandlerTemplate(eventName, handlerName, fileName) ==
  <<"import { EventsHandler, IEventHandler } from '@nestjs/cqrs';", NL, "import { ">>
    \o eventName \o <<" } from './">> \o fileName \o <<".event';", NL, NL,
      "@EventsHandler(">> \o eventName \o <<")", NL, "export class ">>
    \o handlerName \o <<" implements ", "IEventHandler<">> \o eventName
    \o <<">", " {", NL, "}", NL>>

eventIndexTemplate(eventName, handlerName, fileName) ==
  <<"export { ">> \o eventName \o <<" } from './">> \o fileName \o <<".event';", NL,
    "export { ">> \o handlerName \o <<" } from './">> \o fileName
    \o <<".handler';", NL>>

commandTemplate(className) ==
  <<"import { ICommand } from '@nestjs/cqrs';", NL, NL, "export class ">>
    \o className \o <<" implements ", "ICommand", " {", NL, "}", NL>>

commandHandlerTemplate(commandName, handlerName, fileName) ==
  <<"import { CommandHandler, ICommandHandler } from '@nestjs/cqrs';", NL, "import { ">>
    \o commandName \o <<" } from './">> \o fileName \o <<".command';", NL, NL,
      "@CommandHandler(">> \o commandName \o <<")", NL, "export class ">>
    \o handlerName \o <<" implements ", "ICommandHandler<">> \o commandName
    \o <<">", " {", NL, "}", NL>>

commandIndexTemplate(commandName, handlerName, fileName) ==
  <<"export { ">> \o commandName \o <<" } from './">> \o fileName \o <<".command';", NL,
    "export { ">> \o handlerName \o <<" } from './">> \o fileName
    \o <<".handler';", NL>>

queryTemplate(className) ==
  <<"import { IQuery } from '@nestjs/cqrs';", NL, NL, "export class ">>
    \o className \o <<" implements ", "IQuery", " {", NL, "}", NL>>

queryHandlerTemplate(queryName, handlerName, fileName) ==
  <<"import { QueryHandler, IQueryHandler } from '@nestjs/cqrs';", NL, "import { ">>
    \o queryName \o <<" } from './">> \o fileName \o <<".query';", NL, NL,
      "@QueryHandler(">> \o queryName \o <<")", NL, "export class ">>
    \o handlerName \o <<" implements ", "IQueryHandler<">> \o queryName
    \o <<">", " {", NL, "}", NL>>

queryIndexTemplate(queryName, handlerName, fileName) ==
  <<"export { ">> \o queryName \o <<" } from './">> \o fileName \o <<".query';", NL,
    "export { ">> \o handlerName \o <<" } from './">> \o fileName
    \o <<".handler';", NL>>

serviceTemplate(className) ==
  <<"import { Injectable } from '@nestjs/common';", NL, NL, "@Injectable()", NL,
    "export class ">> \o className \o <<" {", NL, "}", NL>>

serviceIndexTemplate(serviceName, fileName) ==
  <<"export { ">> \o serviceName \o <<" } from './">> \o fileName
    \o <<".service';", NL>>

usecaseTemplate(className) ==
  <<"import { Injectable } from '@nestjs/common';", NL, NL, "@Injectable()", NL,
    "export class ">> \o className \o <<" {", NL, "}", NL>>

usecaseIndexTemplate(usecaseName, fileName) ==
  <<"export { ">> \o usecaseName \o <<" } from './">> \o fileName
    \o <<".usecase';", NL>>

\* handlerContent is <<>> where the code leaves it undefined
getTemplates(type, className, handlerName, fileName) ==
  CASE type = "event" ->
         [mainContent |-> eventTemplate(className),
          handlerContent |-> eventHandlerTemplate(className, handlerName, fileName),
          indexContent |-> eventIndexTemplate(className, handlerName, fileName)]
    [] type = "command" ->
         [mainContent |-> commandTemplate(className),
          handlerContent |-> commandHandlerTemplate(className, handlerName, fileName),
          indexContent |-> commandIndexTemplate(className, handlerName, fileName)]
    [] type = "query" ->
         [mainContent |-> queryTemplate(className),
          handlerContent |-> queryHandlerTemplate(className, handlerName, fileName),
          indexContent |-> queryIndexTemplate(className, handlerName, fileName)]
    [] type = "service" ->
         [mainContent |-> serviceTemplate(className),
          handlerContent |-> <<>>,
          indexContent |-> serviceIndexTemplate(className, fileName)]
    [] type = "usecase" ->
         [mainContent |-> usecaseTemplate(className),
          handlerContent |-> <<>>,
          indexContent |-> usecaseIndexTemplate(className, fileName)]

(***************************************************************************)
(* ModuleManagerService: the type index                                    *)
(***************************************************************************)
\* the run of \w characters that starts at position k
RECURSIVE WordRun(_, _)
WordRun(content, k) ==
  IF k <= Len(content) /\ content[k] \in WordChars
  THEN <<content[k]>> \o WordRun(content, k + 1) ELSE <<>>

\* the lengths n for which the first n characters of the run match \w+Handler
HandlerPrefixes(run) ==
  {n \in 1..Len(run) : n > Len(HandlerWord) /\ EndsWith(SubSeq(run, 1, n), HandlerWord)}

\* content.match(/export class (\w+Handler)/): match[1], or <<>> for null
extractHandlerName(content) ==
  LET starts == {i \in DOMAIN content :
                   /\ content[i] = "export class "
                   /\ HandlerPrefixes(WordRun(content, i + 1)) # {}}
  IN IF starts = {} THEN <<>>
     ELSE LET run == WordRun(content, SetMin(starts) + 1)
          IN SubSeq(run, 1, SetMax(HandlerPrefixes(run)))

HandlerInfo(name, path) == [name |-> name, path |-> path]

\* a loop over the entries that ends at the first entry it cannot use
RECURSIVE ScanUntilSkip(_, _, _)
ScanUntilSkip(f, typePath, entries) ==
  IF entries = <<>> THEN <<>>
  ELSE LET name == Head(entries)
           handlerFile == typePath \o <<name, name \o <<".handler.ts">>>>
           handlerName ==
             IF IsFile(f, handlerFile) THEN extractHandlerName(f[handlerFile].content)
             ELSE <<>>
       IN IF IsDir(f, Append(typePath, name)) /\ handlerName # <<>>
          THEN <<[name |-> handlerName, path |-> <<"./">> \o name]>>
                 \o ScanUntilSkip(f, typePath, Tail(entries))
          ELSE <<>>

\* the loop of getAllHandlers over the entries, in the order readDir gives them
RECURSIVE ScanEntries(_, _, _)
ScanEntries(f, typePath, entries) ==
  IF entries = <<>> THEN <<>>
  ELSE LET name == Head(entries)
           handlerFile == typePath \o <<name, name \o <<".handler.ts">>>>
           handlerName ==
             IF IsFile(f, handlerFile) THEN extractHandlerName(f[handlerFile].content)
             ELSE <<>>
           rest == ScanEntries(f, typePath, Tail(entries))
       IN IF IsDir(f, Append(typePath, name)) /\ handlerName # <<>>
          THEN <<HandlerInfo(handlerName, <<"./">> \o name)>> \o rest
          ELSE rest

\* a scan that finds no handler
ScanNothing(f, typePath, entries) == <<>>

\* a scan that also keeps what the barrel of the folder lists
ScanAndBarrel(f, typePath, entries) ==
  LET indexPath == Append(typePath, <<"index.ts">>)
      barrel == IF IsFile(f, indexPath) THEN f[indexPath].content ELSE <<>>
      IsListed(line) == line.t = "import" /\ EndsWith(line.name, HandlerWord)
      listed == SelectSeq(barrel, IsListed)
      scanned == IF IsDir(f, typePath) THEN ScanEntries(f, typePath, entries) ELSE <<>>
      IsNew(line) == \A i \in DOMAIN scanned : scanned[i].name # line.name
      kept == SelectSeq(listed, IsNew)
  IN scanned \o [i \in DOMAIN kept |-> [name |-> kept[i].name, path |-> kept[i].path]]

getAllHandlers(f, typePath, entries) ==
  IF IsDir(f, typePath) THEN ScanEntries(f, typePath, entries) ELSE <<>>

\* the index of the first occurrence of sub in s, or 0
FirstIndexOf(s, sub) ==
  LET at == {i \in 1..(Len(s) - Len(sub) + 1) : SubSeq(s, i, i + Len(sub) - 1) = sub}
  IN IF at = {} THEN 0 ELSE SetMin(at)

\* handler.name.replace('Handler', '')
MainClassName(handlerName) ==
  LET i == FirstIndexOf(handlerName, HandlerWord)
  IN IF i = 0 THEN handlerName
     ELSE SubSeq(handlerName, 1, i - 1)
            \o SubSeq(handlerName, i + Len(HandlerWord), Len(handlerName))

Line(t, name, path) == [t |-> t, name |-> name, path |-> path]

HandlerArrayName(type) ==
  CapitalizeFirst(TypeWord(type)) \o <<"H","a","n","d","l","e","r","s">>

\* the text of the barrel, line by line
generateTypeIndexContent(type, handlers) ==
  Flatten([i \in DOMAIN handlers |->
             <<Line("import", handlers[i].name, handlers[i].path),
               Line("import", MainClassName(handlers[i].name), handlers[i].path)>>])
    \o <<Line("blank", <<>>, <<>>),
         Line("export const = [", HandlerArrayName(type), <<>>)>>
    \o [i \in DOMAIN handlers |-> Line("item", handlers[i].name, <<>>)]
    \o <<Line("];", <<>>, <<>>),
         Line("blank", <<>>, <<>>),
         Line("// Export all classes", TypeWord(type), <<>>)>>
    \o [i \in DOMAIN handlers |->
          Line("export", MainClassName(handlers[i].name), <<>>)]

\* the handler list of updateTypeIndex: the scan, plus the new handler if absent
TypeIndexHandlers(f, type, entries, newHandler) ==
  LET handlers == getAllHandlers(f, TypePath(type), entries)
      exists == \E i \in DOMAIN handlers : handlers[i].name = newHandler.name
  IN IF exists THEN handlers ELSE Append(handlers, newHandler)

(***************************************************************************)
(* ModuleManagerService.updateNonCQRSTypeIndex: the barrel of the services *)
(* and of the use cases. Its code is not among the sources; it follows the *)
(* specification's Operation C: Operation A keyed off the exported class   *)
(* of the component's main file, with no handler and nothing stripped.     *)
(***************************************************************************)
\* content.match(/export class (\w+)/): match[1], or <<>> for null
extractClassName(content) ==
  LET starts == {i \in DOMAIN content :
                   content[i] = "export class " /\ WordRun(content, i + 1) # <<>>}
  IN IF starts = {} THEN <<>> ELSE WordRun(content, SetMin(starts) + 1)

RECURSIVE ScanClasses(_, _, _, _)
ScanClasses(f, type, typePath, entries) ==
  IF entries = <<>> THEN <<>>
  ELSE LET name == Head(entries)
           mainFile == typePath \o <<name, name \o <<".", type, ".ts">>>>
           className ==
             IF IsFile(f, mainFile) THEN extractClassName(f[mainFile].content)
             ELSE <<>>
           rest == ScanClasses(f, type, typePath, Tail(entries))
       IN IF IsDir(f, Append(typePath, name)) /\ className # <<>>
          THEN <<HandlerInfo(className, <<"./">> \o name)>> \o rest
          ELSE rest

\* export const Services = [ ... ], export const UseCases = [ ... ]
ClassArrayName(type) ==
  IF type = "service" THEN <<"S","e","r","v","i","c","e","s">>
  ELSE <<"U","s","e","C","a","s","e","s">>

generateNonCQRSIndexContent(type, classes) ==
  [i \in DOMAIN classes |-> Line("import", classes[i].name, classes[i].path)]
    \o <<Line("blank", <<>>, <<>>),
         Line("export const = [", ClassArrayName(type), <<>>)>>
    \o [i \in DOMAIN classes |-> Line("item", classes[i].name, <<>>)]
    \o <<Line("];", <<>>, <<>>), Line("blank", <<>>, <<>>)>>
    \o [i \in DOMAIN classes |-> Line("export", classes[i].name, <<>>)]

\* the class list of updateNonCQRSTypeIndex: the scan, plus the new class if absent
NonCQRSClasses(f, type, entries, newClass) ==
  LET typePath == TypePath(type)
      classes == IF IsDir(f, typePath) THEN ScanClasses(f, type, typePath, entries)
                 ELSE <<>>
      exists == \E i \in DOMAIN classes : classes[i].name = newClass.name
  IN IF exists THEN classes ELSE Append(classes, newClass)

(***************************************************************************)
(* ModuleManagerService.updateServiceModule                                *)
(*                                                                         *)
(* readFault and writeFault are the failures of Deno.readTextFile and      *)
(* Deno.writeTextFile the environment can produce on a path that is in     *)
(* order (permissions, I/O errors). The result tells what the call did.    *)
(***************************************************************************)
\* a method without the outer try/catch: the failure leaves it
NoOuterCatch(failed) == failed

\* the outer try/catch: whether a failure inside it leaves the method
OuterCatch(failed) == FALSE

updateServiceModule(f, appName, readFault, writeFault) ==
  LET modulePath == ModulePath(appName)
      readOk == IsFile(f, modulePath) /\ ~readFault
      \* inner catch: any read failure takes the skeleton and ensures src/
      ensureOk == CanMkdir(f, SrcPath)
      f1 == IF ~readOk /\ ensureOk THEN Mkdir(f, SrcPath) ELSE f
      moduleContent ==
        IF readOk THEN f[modulePath].content ELSE generateNewModuleContent(appName)
      updatedContent == updateModuleContent(moduleContent)
      writeOk == (readOk \/ ensureOk) /\ ~writeFault /\ CanWrite(f1, modulePath)
  IN [fs |-> IF writeOk THEN Write(f1, modulePath, updatedContent) ELSE f1,
      existed |-> Exists(f, modulePath),
      before |-> IF IsFile(f, modulePath) THEN f[modulePath].content ELSE <<>>,
      skeleton |-> ~readOk,
      written |-> writeOk,
      \* console.warn in the outer catch
      warned |-> ~writeOk,
      threw |-> OuterCatch(~writeOk)]

(***************************************************************************)
(* GeneratorService.initializeService                                      *)
(***************************************************************************)
LayoutDirs ==
  {<<Seg("src"), Seg("application")>>,
   <<Seg("src"), Seg("application"), Seg("commands")>>,
   <<Seg("src"), Seg("application"), Seg("events")>>,
   <<Seg("src"), Seg("application"), Seg("queries")>>,
   <<Seg("src"), Seg("application"), Seg("usecases")>>,
   <<Seg("src"), Seg("domain")>>,
   <<Seg("src"), Seg("domain"), Seg("constants")>>,
   <<Seg("src"), Seg("domain"), Seg("entities")>>,
   <<Seg("src"), Seg("domain"), Seg("services")>>,
   <<Seg("src"), Seg("infrastructure")>>,
   <<Seg("src"), Seg("infrastructure"), Seg("adapters")>>,
   <<Seg("src"), Seg("infrastructure"), Seg("persistence")>>,
   <<Seg("src"), Seg("controllers")>>,
   <<Seg("src"), Seg("dto")>>,
   <<Seg("src"), Seg("dto"), Seg("requests")>>,
   <<Seg("src"), Seg("dto"), Seg("responses")>>,
   <<Seg("src"), Seg("ports")>>}

\* the check without the test of isDirectory
AppPathErrorNoDirectoryTest(f) ==
  IF ~Exists(f, <<>>) THEN "does not exist" ELSE ""

\* the check of apps/<app> that opens initializeService: "" when it passes
AppPathError(f) ==
  IF ~Exists(f, <<>>) THEN "does not exist"
  ELSE IF ~IsDir(f, <<>>) THEN "exists but is not a directory"
  ELSE ""

\* createDirectoryWithLog on every layout directory: stat, then ensureDir if absent
CreateLayout(f) ==
  LET missing == {p \in LayoutDirs : ~Exists(f, p)}
      created == UNION {Prefixes(p) : p \in missing}
  IN [q \in DOMAIN f \cup created |-> IF q \in DOMAIN f THEN f[q] ELSE DirNode]

(***************************************************************************)
(* Bounds and inputs                                                       *)
(***************************************************************************)
\* the number of calls made in a run
MaxCalls == 3

\* the number of injected read or write failures
MaxFaults == 1

\* the length of the import block of an enumerated module file
MaxImports == 2

\* the number of elements of the providers array of an enumerated module file
MaxProviders == 2

CreateUser == <<"C","r","e","a","t","e","U","s","e","r">>
create_user == <<"c","r","e","a","t","e","_","u","s","e","r">>
UpdateUser == <<"U","p","d","a","t","e","U","s","e","r">>
HandlerAdded == <<"H","a","n","d","l","e","r","A","d","d","e","d">>

\* the (kind, raw name) pairs generate is called with
GenInputs ==
  {<<"command", CreateUser>>, <<"command", create_user>>, <<"command", UpdateUser>>,
   <<"event", CreateUser>>, <<"query", UpdateUser>>}

TestService == <<"t","e","s","t","-","s","e","r","v","i","c","e">>
Orders == <<"O","r","d","e","r","s">>
my_app == <<"m","y","_","a","p","p">>
myApp == <<"m","y","A","p","p">>

AppNames == {TestService, Orders, my_app, myApp}

(***************************************************************************)
(* The module files the stand-alone specification starts from              *)
(***************************************************************************)
RECURSIVE SeqsUpTo(_, _)
SeqsUpTo(S, n) ==
  IF n = 0 THEN {<<>>}
  ELSE LET shorter == SeqsUpTo(S, n - 1)
       IN shorter \cup {Append(q, x) : q \in shorter, x \in S}

ImportPool == {ImpModule, ImpFoo, ImpCommands}
ProviderPool == {"FooService", "BarService", "...EventHandlers"}

ImportBlock(statements) ==
  Flatten([i \in DOMAIN statements |-> <<statements[i], NL>>])

\* providers: [A, B],
InlineProviders(list) ==
  <<"  ", "providers:", " ", "[">>
    \o Flatten([i \in DOMAIN list |->
                  IF i < Len(list) THEN <<list[i], ",", " ">> ELSE <<list[i]>>])
    \o <<"]", ",", NL>>

\* providers: [ then one element a line, each with its comma
LinedProviders(list) ==
  <<"  ", "providers:", " ", "[", NL>>
    \o Flatten([i \in DOMAIN list |-> <<"    ", list[i], ",", NL>>])
    \o <<"  ", "]", ",", NL>>

\* providers:[A,B]
TightProviders(list) ==
  <<"  ", "providers:", "[">>
    \o Flatten([i \in DOMAIN list |->
                  IF i < Len(list) THEN <<list[i], ",">> ELSE <<list[i]>>])
    \o <<"]", NL>>

Decorated(properties) ==
  <<NL, "@Module({", NL, "  ", "imports:", " ", "[", "]", ",", NL>>
    \o properties
    \o <<"  ", "controllers:", " ", "[", "]", ",", NL, "})", NL>>

ProviderLists == SeqsUpTo(ProviderPool, MaxProviders)

PlainDecorators ==
  {Decorated(InlineProviders(l)) : l \in ProviderLists}
    \cup {Decorated(LinedProviders(l)) : l \in ProviderLists}
    \cup {Decorated(TightProviders(l)) : l \in ProviderLists}

\* an element of the providers array that holds an array of its own
NestedDecorator ==
  Decorated(<<"  ", "providers:", " ", "[", "{ provide: TOKEN, inject: ", "[",
              "BarService", "]", " }", ",", " ", "FooService", "]", ",", NL>>)

OtherDecorators ==
  {<<>>,
   <<NL, "@Module({", "})", NL>>,
   Decorated(<<>>),
   Decorated(<<"  ", "providers:", " ", "PROVIDERS", ",", NL>>)}

ClassLine == <<"export class AppModule {}", NL>>

ModuleFiles(decorators) ==
  {ImportBlock(h) \o d \o ClassLine :
     h \in SeqsUpTo(ImportPool, MaxImports), d \in decorators}

ModuleContents == ModuleFiles(PlainDecorators \cup {NestedDecorator} \cup OtherDecorators)

\* the module file of the module-manager test
TestModule ==
  ImportBlock(<<ImpModule, ImpFoo, ImpBar>>)
    \o Decorated(LinedProviders(<<"FooService", "BarService">>))
    \o ClassLine

(***************************************************************************)
(* State                                                                   *)
(***************************************************************************)
VARIABLES
  app,      \* the app name of the run
  fs,       \* the nodes under apps/<app>: path -> node
  order,    \* per kind, the subdirectories of the type folder as readDir lists them
  pc,       \* where the generate call in progress stands
  cur,      \* the generate call in progress
  calls,    \* the calls made
  faults,   \* the failures injected
  last,     \* how the last call ended
  lastGen,  \* the last generate call that succeeded
  seen,     \* per kind, the components generated, in the order first generated
  indexLog, \* what the last updateTypeIndex read and wrote
  modLog,   \* what the last updateServiceModule did
  tasks,    \* the createDirectoryWithLog tasks of the initializeService in progress
  norm,     \* a raw name and a suffix, and what the naming utilities make of them
  procs     \* the generate invocations that run side by side, one per process

vars ==
  <<app, fs, order, pc, cur, calls, faults, last, lastGen, seen, indexLog, modLog,
    tasks, norm, procs>>

NoCall ==
  [type |-> "", name |-> <<>>, className |-> <<>>, handlerName |-> <<>>,
   folderName |-> <<>>, baseFileName |-> <<>>, repeat |-> FALSE]

NoIndexLog == [type |-> "", before |-> <<>>, after |-> <<>>]

\* absent: the tasks whose Deno.stat found nothing and whose ensureDir is to come
\* traced: the tasks followed step by step, todo: those whose stat is to come
\* rest: the other tasks have still to run; failed: a task has thrown
NoNorm == [name |-> <<>>, suffix |-> <<>>, done |-> FALSE]

\* a process that runs no generate: pending are the writes of component files
\* still under way, handlers the list the scan of the type folder returned
Processes == {1, 2}

IdleProc ==
  [pc |-> "idle", cur |-> NoCall, pending |-> {}, handlers |-> <<>>, result |-> "none",
   alone |-> TRUE]

NoProcs == [p \in Processes |-> IdleProc]

NoTasks ==
  [traced |-> {}, todo |-> {}, absent |-> {}, rest |-> FALSE, failed |-> FALSE]

\* wasOutput, isOutput: the module file was written by updateServiceModule
\* before, and after, the call
NoModLog ==
  [calls |-> 0, existed |-> FALSE, before |-> <<>>, skeleton |-> FALSE,
   written |-> FALSE, warned |-> FALSE, wasOutput |-> FALSE, isOutput |-> FALSE]

ModLogOf(r, old) ==
  [calls |-> old.calls + 1, existed |-> r.existed, before |-> r.before,
   skeleton |-> r.skeleton, written |-> r.written, warned |-> r.warned,
   wasOutput |-> old.isOutput, isOutput |-> old.isOutput \/ r.written]

Ended(op, result, error) == [op |-> op, result |-> result, error |-> error]

EmptyFs == [p \in {} |-> DirNode]
RootFile == [p \in {<<>>} |-> FileNode(<<>>)]
RootDir == [p \in {<<>>} |-> DirNode]

WithModule(appName, content) ==
  Write(Mkdir(RootDir, SrcPath), ModulePath(appName), content)

\* the names in the <Kind>Handlers array of a barrel
RECURSIVE HandlerItems(_)
HandlerItems(barrel) ==
  IF barrel = <<>> THEN <<>>
  ELSE IF Head(barrel).t = "item"
       THEN <<Head(barrel).name>> \o HandlerItems(Tail(barrel))
       ELSE HandlerItems(Tail(barrel))

\* the names a barrel re-exports
BarrelExports(barrel) == {barrel[i].name : i \in {j \in DOMAIN barrel : barrel[j].t = "export"}}

\* a text made of lines: not the index.ts of a component, which a raw name
\* with path separators can put at the path of a barrel
IsBarrelText(text) == text = <<>> \/ ToString(Head(text)) # ToString("export { ")

BarrelOf(f, type) ==
  IF IsFile(f, TypeIndexPath(type)) /\ IsBarrelText(f[TypeIndexPath(type)].content)
  THEN f[TypeIndexPath(type)].content ELSE <<>>

\* everything but the file system and the order of its entries
InitRest ==
  /\ pc = "idle"
  /\ cur = NoCall
  /\ calls = 0
  /\ faults = 0
  /\ last = Ended("none", "none", "")
  /\ lastGen = [type |-> "", name |-> <<>>]
  /\ seen = [k \in AllKinds |-> <<>>]
  /\ indexLog = NoIndexLog
  /\ modLog = NoModLog
  /\ tasks = NoTasks
  /\ norm = NoNorm
  /\ procs = NoProcs

InitCommon ==
  /\ order = [k \in AllKinds |-> <<>>]
  /\ InitRest

Init ==
  /\ app = TestService
  /\ fs \in {EmptyFs, RootFile, RootDir, WithModule(TestService, TestModule)}
  /\ InitCommon

(***************************************************************************)
(* generate                                                                *)
(***************************************************************************)
Descriptor(type, name) ==
  LET className == ensureSuffix(toPascalCase(name), getSuffix(type))
  IN [type |-> type, name |-> name, className |-> className,
      handlerName |-> generateHandlerName(className),
      folderName |-> toKebabCase(name), baseFileName |-> toKebabCase(name),
      repeat |-> lastGen = [type |-> type, name |-> name]]

InsertAt(s, k, x) == SubSeq(s, 1, k) \o <<x>> \o SubSeq(s, k + 1, Len(s))

\* the kind in whose type folder a path lies
InTypeFolder(path) == path # <<>> /\ \E k \in AllKinds : TypePath(k) = Parent(path)
TypeFolderOf(path) == CHOOSE k \in AllKinds : TypePath(k) = Parent(path)

\* the descriptor is built and the component directory ensured
GenStart(type, name) ==
  LET d == Descriptor(type, name)
      basePath == BasePath(type, d.folderName)
  IN /\ pc = "idle"
     /\ calls < MaxCalls
     /\ calls' = calls + 1
     /\ IF CanMkdir(fs, basePath)
        THEN /\ fs' = Mkdir(fs, basePath)
             \* a new directory is a new entry of the type folder it lies in
             /\ IF Exists(fs, basePath) \/ ~InTypeFolder(basePath) THEN order' = order
                ELSE \E k \in 0..Len(order[TypeFolderOf(basePath)]) :
                       order' = [order EXCEPT ![TypeFolderOf(basePath)] =
                                   InsertAt(@, k, basePath[Len(basePath)])]
             /\ pc' = "write"
             /\ cur' = d
             /\ last' = last
        ELSE /\ last' = Ended("generate", "error", "mkdir")
             /\ UNCHANGED <<fs, order, pc, cur>>
     /\ UNCHANGED <<app, faults, lastGen, seen, indexLog, modLog, tasks, norm, procs>>

\* Deno.writeTextFile where the path can be written, nothing where it throws
TryWrite(f, p, content) == IF CanWrite(f, p) THEN Write(f, p, content) ELSE f

\* Promise.all of the writes of the component's files
GenWrite ==
  LET t == getTemplates(cur.type, cur.className, cur.handlerName, cur.baseFileName)
      mainFilePath == MainFilePath(cur.type, cur.folderName, cur.baseFileName)
      indexFilePath == IndexFilePath(cur.type, cur.folderName)
      handlerFilePath == HandlerFilePath(cur.type, cur.folderName, cur.baseFileName)
      f1 == TryWrite(fs, mainFilePath, t.mainContent)
      f2 == TryWrite(f1, indexFilePath, t.indexContent)
      \* if (handlerContent)
      f3 == IF t.handlerContent = <<>> THEN f2
            ELSE TryWrite(f2, handlerFilePath, t.handlerContent)
      written == /\ CanWrite(fs, mainFilePath)
                 /\ CanWrite(fs, indexFilePath)
                 /\ t.handlerContent # <<>> => CanWrite(fs, handlerFilePath)
  IN /\ pc = "write"
     /\ fs' = f3
     /\ IF written
        THEN pc' = "index" /\ UNCHANGED <<cur, last>>
        ELSE /\ pc' = "idle"
             /\ cur' = NoCall
             /\ last' = Ended("generate", "error", "write")
     /\ UNCHANGED <<app, order, calls, faults, lastGen, seen, indexLog, modLog,
                 tasks, norm, procs>>

\* updateTypeIndex, or updateNonCQRSTypeIndex for a service or a use case:
\* the scan of the type folder and the rewrite of the barrel
GenIndex ==
  LET handlers ==
        TypeIndexHandlers(fs, cur.type, order[cur.type],
                          HandlerInfo(cur.handlerName, <<"./">> \o cur.folderName))
      classes ==
        NonCQRSClasses(fs, cur.type, order[cur.type],
                       HandlerInfo(cur.className, <<"./">> \o cur.folderName))
      indexContent ==
        IF cur.type \in Kinds THEN generateTypeIndexContent(cur.type, handlers)
        ELSE generateNonCQRSIndexContent(cur.type, classes)
  IN /\ pc = "index"
     \* Deno.writeTextFile throws NotFound when the type folder is missing
     /\ IF CanWrite(fs, TypeIndexPath(cur.type))
        THEN /\ fs' = Write(fs, TypeIndexPath(cur.type), indexContent)
             /\ indexLog' = [type |-> cur.type,
                             before |-> HandlerItems(BarrelOf(fs, cur.type)),
                             after |-> HandlerItems(indexContent)]
             /\ pc' = "module"
             /\ UNCHANGED <<cur, last>>
        ELSE /\ pc' = "idle"
             /\ cur' = NoCall
             /\ last' = Ended("generate", "error", "NotFound")
             /\ UNCHANGED <<fs, indexLog>>
     /\ UNCHANGED <<app, order, calls, faults, lastGen, seen, modLog,
                 tasks, norm, procs>>

FaultChoices == IF faults < MaxFaults THEN BOOLEAN ELSE {FALSE}

FaultCount(readFault, writeFault) ==
  (IF readFault THEN 1 ELSE 0) + (IF writeFault THEN 1 ELSE 0)

SeenBefore(type, handlerName) ==
  \E i \in DOMAIN seen[type] : seen[type][i].handlerName = handlerName

\* updateServiceModule, then generate returns
GenModule ==
  /\ pc = "module"
  /\ \E readFault \in FaultChoices, writeFault \in FaultChoices :
       LET r == updateServiceModule(fs, app, readFault, writeFault)
       IN /\ faults + FaultCount(readFault, writeFault) <= MaxFaults
          /\ faults' = faults + FaultCount(readFault, writeFault)
          /\ fs' = r.fs
          /\ modLog' = ModLogOf(r, modLog)
          /\ IF r.threw
             THEN /\ last' = Ended("generate", "error", "module")
                  /\ UNCHANGED <<lastGen, seen>>
             ELSE /\ last' = Ended("generate", "ok", "")
                  /\ lastGen' = [type |-> cur.type, name |-> cur.name]
                  /\ seen' =
                       IF SeenBefore(cur.type, cur.handlerName) THEN seen
                       ELSE [seen EXCEPT ![cur.type] =
                               Append(@, [handlerName |-> cur.handlerName,
                                          className |-> cur.className,
                                          folderName |-> cur.folderName])]
  /\ pc' = "idle"
  /\ cur' = NoCall
  /\ UNCHANGED <<app, order, calls, indexLog, tasks, norm, procs>>

Next ==
  \/ \E input \in GenInputs : GenStart(input[1], input[2])
  \/ GenWrite
  \/ GenIndex
  \/ GenModule

Spec == Init /\ [][Next]_vars

(***************************************************************************)
(* generate called with each of the five kinds                             *)
(***************************************************************************)
\* and with a raw name that contains the word Handler
KindInputs == {<<k, CreateUser>> : k \in AllKinds} \cup {<<"event", HandlerAdded>>}

NextKinds ==
  \/ \E input \in KindInputs : GenStart(input[1], input[2])
  \/ GenWrite
  \/ GenIndex
  \/ GenModule

SpecKinds == Init /\ [][NextKinds]_vars

(***************************************************************************)
(* generate called with a raw name that holds path separators              *)
(***************************************************************************)
\* the raw name ../queries
UpToQueries == <<".", ".", "/", "queries">>

FrameInputs ==
  {<<"query", CreateUser>>, <<"command", UpdateUser>>, <<"command", UpToQueries>>}

NextFrame ==
  \/ \E input \in FrameInputs : GenStart(input[1], input[2])
  \/ GenWrite
  \/ GenIndex
  \/ GenModule

SpecFrame == Init /\ [][NextFrame]_vars

(***************************************************************************)
(* updateServiceModule called on its own, on every enumerated module file  *)
(***************************************************************************)
InitModule ==
  /\ \/ /\ app \in AppNames
        /\ fs \in {EmptyFs, RootDir, Mkdir(RootDir, SrcPath)}
     \/ /\ app = TestService
        /\ fs \in {WithModule(TestService, c) : c \in ModuleContents \cup {TestModule}}
  /\ InitCommon

ModUpdate ==
  /\ calls < MaxCalls
  /\ calls' = calls + 1
  /\ \E readFault \in FaultChoices, writeFault \in FaultChoices :
       LET r == updateServiceModule(fs, app, readFault, writeFault)
       IN /\ faults + FaultCount(readFault, writeFault) <= MaxFaults
          /\ faults' = faults + FaultCount(readFault, writeFault)
          /\ fs' = r.fs
          /\ modLog' = ModLogOf(r, modLog)
          /\ last' = Ended("module", IF r.threw THEN "error" ELSE "ok", "")
  /\ UNCHANGED <<app, order, pc, cur, lastGen, seen, indexLog, tasks, norm, procs>>

NextModule == ModUpdate

SpecModule == InitModule /\ [][NextModule]_vars

(***************************************************************************)
(* initializeService called on its own                                     *)
(***************************************************************************)
\* what may lie under apps/<app> before the call
ExistingDirs ==
  {<<Seg("src")>>,
   <<Seg("src"), Seg("application")>>,
   <<Seg("src"), Seg("application"), Seg("commands")>>,
   <<Seg("src"), Seg("domain"), Seg("services")>>,
   <<Seg("src"), Seg("dto")>>,
   <<Seg("src"), Seg("existing-folder")>>}

ExistingFiles ==
  {<<Seg("src"), Seg("existing-file.ts")>>,
   <<Seg("src"), Seg("main.ts")>>,
   <<Seg("README.md")>>}

ExistingFile == <<"export const test = true;">>

WithNodes(dirs, files) ==
  LET created == UNION {Prefixes(p) : p \in dirs} \cup {<<>>}
                   \cup UNION {Prefixes(Parent(p)) : p \in files}
  IN [q \in created \cup files |->
        IF q \in files THEN FileNode(ExistingFile) ELSE DirNode]

InitInit ==
  /\ app = TestService
  /\ fs \in {EmptyFs, RootFile}
         \cup {WithNodes(dirs, files) :
                 dirs \in SUBSET ExistingDirs, files \in SUBSET ExistingFiles}
  /\ InitCommon

InitializeService ==
  /\ calls < MaxCalls
  /\ calls' = calls + 1
  /\ IF AppPathError(fs) # ""
     THEN /\ last' = Ended("init", "error", AppPathError(fs))
          /\ fs' = fs
     ELSE /\ last' = Ended("init", "ok", "")
          /\ fs' = CreateLayout(fs)
  /\ UNCHANGED <<app, order, pc, cur, faults, lastGen, seen, indexLog, modLog,
                 tasks, norm, procs>>

NextInit == InitializeService

SpecInit == InitInit /\ [][NextInit]_vars

(***************************************************************************)
(* initializeService with its Promise.all: the 17 createDirectoryWithLog   *)
(* tasks are dispatched together; the Deno.stat and the ensureDir of a     *)
(* task are two steps, and steps of different tasks interleave freely.     *)
(* MaxTraced tasks are followed step by step; the other tasks run, each    *)
(* stat-then-ensureDir, in one step that may fall anywhere among them.     *)
(***************************************************************************)
\* Deno.stat(path) that only ever reports an error
StatOutcomeNeverNotFound(f, p) == IF Exists(f, p) THEN "exists" ELSE "error"

\* Deno.stat(path) in createDirectoryWithLog: a file on the way to p gives an
\* error that is not NotFound and is thrown again
StatOutcome(f, p) ==
  IF \E q \in Prefixes(Parent(p)) : IsFile(f, q) THEN "error"
  ELSE IF Exists(f, p) THEN "exists"
  ELSE "absent"

\* Deno.mkdir without recursive: true
EnsureDirThrowsNotRecursive(f, p) == ~IsDir(f, Parent(p)) \/ Exists(f, p)

\* ensureDir throws what Deno.mkdir throws, AlreadyExists left out
EnsureDirThrows(f, p) == \E q \in Prefixes(Parent(p)) : IsFile(f, q)

\* ensureDir: the directory and its missing parents are created; on a path
\* that exists nothing changes
ensureDir(f, p) == IF CanMkdir(f, p) THEN Mkdir(f, p) ELSE f

\* createDirectoryWithLog run as one step on each path of a set
RECURSIVE CreateAll(_, _)
CreateAll(f, paths) ==
  IF paths = {} THEN [fs |-> f, failed |-> FALSE]
  ELSE LET p == CHOOSE x \in paths : TRUE
           o == StatOutcome(f, p)
           threw == o = "error" \/ (o = "absent" /\ EnsureDirThrows(f, p))
           f1 == IF o = "absent" /\ ~threw THEN ensureDir(f, p) ELSE f
           r == CreateAll(f1, paths \ {p})
       IN [fs |-> r.fs, failed |-> threw \/ r.failed]

\* the number of tasks followed step by step
MaxTraced == 2

\* the tasks that may be traced: parents with children, siblings, strangers
TracedPool ==
  {<<Seg("src"), Seg("application")>>,
   <<Seg("src"), Seg("application"), Seg("commands")>>,
   <<Seg("src"), Seg("application"), Seg("events")>>,
   <<Seg("src"), Seg("domain")>>,
   <<Seg("src"), Seg("domain"), Seg("entities")>>,
   <<Seg("src"), Seg("dto")>>,
   <<Seg("src"), Seg("dto"), Seg("requests")>>,
   <<Seg("src"), Seg("ports")>>}

TracedSets == {T \in SUBSET TracedPool : Cardinality(T) = MaxTraced}

\* a file where the layout wants a directory
BlockedDto == WithNodes({<<Seg("src")>>}, {<<Seg("src"), Seg("dto")>>})
BlockedPorts == WithNodes({<<Seg("src")>>}, {<<Seg("src"), Seg("ports")>>})

LayoutStarts ==
  {EmptyFs, RootFile, RootDir,
   WithNodes({<<Seg("src"), Seg("existing-folder")>>},
             {<<Seg("src"), Seg("existing-file.ts")>>}),
   WithNodes({<<Seg("src"), Seg("application"), Seg("commands")>>,
              <<Seg("src"), Seg("dto")>>},
             {<<Seg("src"), Seg("main.ts")>>}),
   BlockedDto, BlockedPorts}

InitLayout ==
  /\ app = TestService
  /\ fs \in LayoutStarts
  /\ InitCommon

InitError == "not a directory (os error 20)"

\* the first rejection rejects Promise.all: initializeService throws
Rejected(error) == IF tasks.failed THEN last ELSE Ended("init", "error", error)

\* the check of apps/<app>, then the dispatch of the tasks
LayoutDispatch ==
  /\ pc = "idle"
  /\ calls < MaxCalls
  /\ calls' = calls + 1
  /\ IF AppPathError(fs) # ""
     THEN /\ last' = Ended("init", "error", AppPathError(fs))
          /\ UNCHANGED <<pc, tasks>>
     ELSE /\ pc' = "layout"
          /\ last' = Ended("init", "running", "")
          /\ \E T \in TracedSets :
               tasks' = [traced |-> T, todo |-> T, absent |-> {}, rest |-> TRUE,
                         failed |-> FALSE]
  /\ UNCHANGED <<app, fs, order, cur, faults, lastGen, seen, indexLog, modLog,
               norm, procs>>

\* await Deno.stat(path) of one task
StatTask(p) ==
  /\ pc = "layout"
  /\ p \in tasks.todo
  /\ LET o == StatOutcome(fs, p)
     IN /\ tasks' = [tasks EXCEPT !.todo = @ \ {p},
                                  !.absent = IF o = "absent" THEN @ \cup {p} ELSE @,
                                  !.failed = @ \/ o = "error"]
        /\ last' = IF o = "error" THEN Rejected(InitError) ELSE last
  /\ UNCHANGED <<app, fs, order, pc, cur, calls, faults, lastGen, seen, indexLog, modLog,
               norm, procs>>

\* await ensureDir(path) of a task whose stat found nothing
EnsureTask(p) ==
  /\ pc = "layout"
  /\ p \in tasks.absent
  /\ LET threw == EnsureDirThrows(fs, p)
     IN /\ fs' = IF threw THEN fs ELSE ensureDir(fs, p)
        /\ tasks' = [tasks EXCEPT !.absent = @ \ {p}, !.failed = @ \/ threw]
        /\ last' = IF threw THEN Rejected(InitError) ELSE last
  /\ UNCHANGED <<app, order, pc, cur, calls, faults, lastGen, seen, indexLog, modLog,
               norm, procs>>

\* the tasks that are not traced
RestTasks ==
  /\ pc = "layout"
  /\ tasks.rest
  /\ LET r == CreateAll(fs, LayoutDirs \ tasks.traced)
     IN /\ fs' = r.fs
        /\ tasks' = [tasks EXCEPT !.rest = FALSE, !.failed = @ \/ r.failed]
        /\ last' = IF r.failed THEN Rejected(InitError) ELSE last
  /\ UNCHANGED <<app, order, pc, cur, calls, faults, lastGen, seen, indexLog, modLog,
               norm, procs>>

\* every task has settled: Promise.all resolves unless it was rejected
LayoutReturn ==
  /\ pc = "layout"
  /\ tasks.todo = {} /\ tasks.absent = {} /\ ~tasks.rest
  /\ pc' = "idle"
  /\ last' = IF tasks.failed THEN last ELSE Ended("init", "ok", "")
  /\ tasks' = NoTasks
  /\ UNCHANGED <<app, fs, order, cur, calls, faults, lastGen, seen, indexLog, modLog,
               norm, procs>>

NextLayout ==
  \/ LayoutDispatch
  \/ \E p \in LayoutDirs : StatTask(p)
  \/ \E p \in LayoutDirs : EnsureTask(p)
  \/ RestTasks
  \/ LayoutReturn

SpecLayout == InitLayout /\ [][NextLayout]_vars

(***************************************************************************)
(* The naming utilities on their own: a raw name and a suffix are drawn,   *)
(* and one step applies the utilities to them the way generate does.       *)
(***************************************************************************)
MaxName == 4

\* the characters of the raw names: a lower-case letter, a capital, a digit,
\* the two separators of the accepted styles, and a letter outside ASCII
NameChars == {"a", "B", "1", "-", "_", CapitalSigma}

RECURSIVE StringsOf(_, _)
StringsOf(chars, n) ==
  IF n = 0 THEN {<<>>}
  ELSE LET shorter == StringsOf(chars, n - 1)
       IN shorter \cup {Append(w, c) : w \in shorter, c \in chars}

RawNames == StringsOf(NameChars, MaxName)

\* the suffixes: none, short ones that a short name can already end with in
\* either case, the capital sigma, and a suffix of generate
Suffixes ==
  {<<>>, <<"A">>, <<"b">>, <<"B", "a">>, <<CapitalSigma>>, getSuffix("event")}

InitNames ==
  /\ app = TestService
  /\ fs = EmptyFs
  /\ order = [k \in AllKinds |-> <<>>]
  /\ pc = "idle"
  /\ cur = NoCall
  /\ calls = 0
  /\ faults = 0
  /\ last = Ended("none", "none", "")
  /\ lastGen = [type |-> "", name |-> <<>>]
  /\ seen = [k \in AllKinds |-> <<>>]
  /\ indexLog = NoIndexLog
  /\ modLog = NoModLog
  /\ tasks = NoTasks
  /\ procs = NoProcs
  /\ \E n \in RawNames, x \in Suffixes :
       norm = [name |-> n, suffix |-> x, done |-> FALSE]

\* toPascalCase(toKebabCase(x))
RoundTrip(x) == toPascalCase(toKebabCase(x))

\* the handler file generate renders for a raw name, and the name of its class
RenderedHandler(type, name) ==
  LET className == ensureSuffix(toPascalCase(name), getSuffix(type))
      handlerName == generateHandlerName(className)
  IN [handlerName |-> handlerName,
      text |-> getTemplates(type, className, handlerName, toKebabCase(name)).handlerContent]

\* the names generate derives from the raw name, and the utilities applied
\* once more to their own results
Normalize ==
  /\ ~norm.done
  /\ norm' =
       [name |-> norm.name,
        suffix |-> norm.suffix,
        done |-> TRUE,
        suffixed |-> ensureSuffix(norm.name, norm.suffix),
        again |-> ensureSuffix(ensureSuffix(norm.name, norm.suffix), norm.suffix),
        pascal |-> toPascalCase(norm.name),
        className |-> ensureSuffix(toPascalCase(norm.name), norm.suffix),
        classAgain |->
          ensureSuffix(ensureSuffix(toPascalCase(norm.name), norm.suffix), norm.suffix),
        baseFileName |-> toKebabCase(norm.name),
        folderName |-> toKebabCase(norm.name),
        handlerName |-> [k \in Kinds |-> RenderedHandler(k, norm.name).handlerName],
        extracted |-> [k \in Kinds |-> extractHandlerName(RenderedHandler(k, norm.name).text)],
        round |-> RoundTrip(toPascalCase(norm.name)),
        roundAgain |-> RoundTrip(RoundTrip(toPascalCase(norm.name)))]
  /\ UNCHANGED <<app, fs, order, pc, cur, calls, faults, last, lastGen, seen, indexLog,
               modLog, tasks, procs>>

NextNames == Normalize

SpecNames == InitNames /\ [][NextNames]_vars

(***************************************************************************)
(* updateTypeIndex called on its own, as the module-manager tests call it, *)
(* on a type folder whose component directories come and go                *)
(***************************************************************************)
IndexType == "command"

DeleteUser == <<"D","e","l","e","t","e","U","s","e","r">>

\* the raw names of the components
IndexNames == {CreateUser, UpdateUser}

\* the HandlerInfo generate passes for a component
HandlerOf(name) ==
  HandlerInfo(generateHandlerName(ensureSuffix(toPascalCase(name), getSuffix(IndexType))),
              <<"./">> \o toKebabCase(name))

\* a barrel left by earlier calls, listing a component that is no longer there
StaleBarrel == generateTypeIndexContent(IndexType, <<HandlerOf(DeleteUser)>>)

\* entries of the type folder that are no generated components: a directory
\* without a handler file, a plain file, and a directory whose handler file
\* exports no class ending in Handler
Drafts == <<"d","r","a","f","t","s">>
Notes == <<"n","o","t","e","s",".","t","x","t">>
Legacy == <<"l","e","g","a","c","y">>

ForeignEntries == <<Drafts, Notes, Legacy>>

ForeignHandlerFile ==
  <<"export class ", "L","e","g","a","c","y", " {", NL, "}", NL>>

WithForeign ==
  LET typePath == TypePath(IndexType)
      f1 == Mkdir(Mkdir(RootDir, Append(typePath, Drafts)), Append(typePath, Legacy))
      f2 == Write(f1, Append(typePath, Notes), <<"to do">>)
  IN Write(f2, typePath \o <<Legacy, Legacy \o <<".handler.ts">>>>, ForeignHandlerFile)

\* no apps/<app>, no type folder, an empty type folder, one with an old barrel,
\* one with entries that are no components
IndexStarts ==
  {EmptyFs,
   RootDir,
   Mkdir(RootDir, TypePath(IndexType)),
   Write(Mkdir(RootDir, TypePath(IndexType)), TypeIndexPath(IndexType), StaleBarrel),
   WithForeign}

InitIndex ==
  /\ app = TestService
  /\ fs \in IndexStarts
  /\ order = [k \in AllKinds |->
               IF k = IndexType /\ fs = WithForeign THEN ForeignEntries ELSE <<>>]
  /\ InitRest

\* updateTypeIndex(appName, typeFolder, type, newHandler)
UpdateTypeIndex(newHandler) ==
  LET handlers == TypeIndexHandlers(fs, IndexType, order[IndexType], newHandler)
      indexContent == generateTypeIndexContent(IndexType, handlers)
  IN /\ pc = "idle"
     /\ calls < MaxCalls
     /\ calls' = calls + 1
     /\ cur' = [NoCall EXCEPT !.type = IndexType, !.handlerName = newHandler.name,
                              !.folderName = Tail(newHandler.path)]
     /\ indexLog' = [type |-> IndexType,
                     before |-> HandlerItems(BarrelOf(fs, IndexType)),
                     after |-> HandlerItems(indexContent)]
     \* Deno.writeTextFile throws NotFound when the folder of the file is missing
     /\ IF CanWrite(fs, TypeIndexPath(IndexType))
        THEN /\ fs' = Write(fs, TypeIndexPath(IndexType), indexContent)
             /\ last' = Ended("updateTypeIndex", "ok", "")
        ELSE /\ fs' = fs
             /\ last' = Ended("updateTypeIndex", "error", "NotFound")
     /\ UNCHANGED <<app, order, pc, faults, lastGen, seen, modLog, tasks, norm, procs>>

\* a component directory with its handler file is created
AddComponent(name) ==
  LET h == HandlerOf(name)
      folderName == toKebabCase(name)
      className == ensureSuffix(toPascalCase(name), getSuffix(IndexType))
      basePath == BasePath(IndexType, folderName)
      t == getTemplates(IndexType, className, h.name, folderName)
  IN /\ pc = "idle"
     /\ ~Exists(fs, basePath)
     /\ CanMkdir(fs, basePath)
     /\ fs' = Write(Mkdir(fs, basePath),
                    HandlerFilePath(IndexType, folderName, folderName), t.handlerContent)
     /\ \E k \in 0..Len(order[IndexType]) :
          order' = [order EXCEPT ![IndexType] = InsertAt(@, k, folderName)]
     /\ last' = Ended("add", "ok", "")
     /\ UNCHANGED <<app, pc, cur, calls, faults, lastGen, seen, indexLog, modLog, tasks,
                  norm, procs>>

\* Deno.remove(path, { recursive: true }) of a component directory
RemoveComponent(name) ==
  LET folderName == toKebabCase(name)
      basePath == BasePath(IndexType, folderName)
      Kept(entry) == entry # folderName
  IN /\ pc = "idle"
     /\ IsDir(fs, basePath)
     /\ fs' = [q \in {r \in DOMAIN fs : basePath \notin Prefixes(r)} |-> fs[q]]
     /\ order' = [order EXCEPT ![IndexType] = SelectSeq(@, Kept)]
     /\ last' = Ended("remove", "ok", "")
     /\ UNCHANGED <<app, pc, cur, calls, faults, lastGen, seen, indexLog, modLog, tasks,
                  norm, procs>>

NextIndex ==
  \/ \E name \in IndexNames : UpdateTypeIndex(HandlerOf(name))
  \/ \E name \in IndexNames : AddComponent(name)
  \/ \E name \in IndexNames : RemoveComponent(name)

SpecIndex == InitIndex /\ [][NextIndex]_vars

(***************************************************************************)
(* generate step by step, in two processes side by side: ensureDir, the    *)
(* writes of Promise.all each on its own, the scan of the type folder, the *)
(* rewrite of the barrel, updateServiceModule                              *)
(***************************************************************************)
RunType == "command"

\* the raw names of the invocations
RunNames == {CreateUser, UpdateUser}

RunDescriptor(name) ==
  LET className == ensureSuffix(toPascalCase(name), getSuffix(RunType))
  IN [type |-> RunType, name |-> name, className |-> className,
      handlerName |-> generateHandlerName(className),
      folderName |-> toKebabCase(name), baseFileName |-> toKebabCase(name),
      repeat |-> FALSE]

\* the file paths and the texts of writePromises
WritesOf(c) ==
  LET t == getTemplates(c.type, c.className, c.handlerName, c.baseFileName)
  IN [main |-> [path |-> MainFilePath(c.type, c.folderName, c.baseFileName),
                content |-> t.mainContent],
      index |-> [path |-> IndexFilePath(c.type, c.folderName),
                 content |-> t.indexContent],
      handler |-> [path |-> HandlerFilePath(c.type, c.folderName, c.baseFileName),
                   content |-> t.handlerContent]]

\* the writes generate dispatches: the handler only if (handlerContent)
Dispatched(c) ==
  {"main", "index"} \cup (IF WritesOf(c).handler.content = <<>> THEN {} ELSE {"handler"})

\* the three files of a component, as edited by hand since they were generated
HandEdit == <<"// edited by hand", NL>>

EditedComponent(f, name) ==
  LET c == RunDescriptor(name)
      f0 == Mkdir(f, BasePath(c.type, c.folderName))
      f1 == Write(f0, WritesOf(c).main.path, HandEdit \o WritesOf(c).main.content)
      f2 == Write(f1, WritesOf(c).index.path, HandEdit \o WritesOf(c).index.content)
  IN Write(f2, WritesOf(c).handler.path, HandEdit \o WritesOf(c).handler.content)

\* a component directory in which index.ts is a directory
BlockedComponent(f, name) ==
  Mkdir(f, Append(BasePath(RunType, toKebabCase(name)), Seg("index.ts")))

\* a fresh app, an app with a component edited by hand, an app with a
\* component directory whose index.ts cannot be written
RunStarts ==
  {[fs |-> Mkdir(RootDir, SrcPath), entries |-> <<>>],
   [fs |-> EditedComponent(RootDir, CreateUser), entries |-> <<toKebabCase(CreateUser)>>],
   [fs |-> BlockedComponent(RootDir, CreateUser), entries |-> <<toKebabCase(CreateUser)>>]}

InitRun ==
  /\ app = TestService
  /\ \E start \in RunStarts :
       /\ fs = start.fs
       /\ order = [k \in AllKinds |-> IF k = RunType THEN start.entries ELSE <<>>]
  /\ InitRest

\* await ensureDir(basePath), then the dispatch of the writes; the processes
\* being alike, an invocation starts in the first process that is free
RunStart(p, name) ==
  LET c == RunDescriptor(name)
      basePath == BasePath(c.type, c.folderName)
      others == \A q \in Processes \ {p} : procs[q].pc = "idle"
  IN /\ procs[p].pc = "idle"
     /\ \A q \in Processes : q < p => procs[q].pc # "idle"
     /\ calls < MaxCalls
     /\ calls' = calls + 1
     /\ IF CanMkdir(fs, basePath)
        THEN /\ fs' = Mkdir(fs, basePath)
             /\ IF Exists(fs, basePath) THEN order' = order
                ELSE \E k \in 0..Len(order[c.type]) :
                       order' = [order EXCEPT ![c.type] = InsertAt(@, k, c.folderName)]
             /\ procs' =
                  [q \in Processes |->
                     IF q = p
                     THEN [pc |-> "write", cur |-> c, pending |-> Dispatched(c),
                           handlers |-> <<>>, result |-> "none", alone |-> others]
                     ELSE IF procs[q].pc = "idle" THEN procs[q]
                          ELSE [procs[q] EXCEPT !.alone = FALSE]]
             /\ last' = last
        ELSE /\ procs' = procs
             /\ last' = Ended("generate", "error", "mkdir")
             /\ UNCHANGED <<fs, order>>
     /\ UNCHANGED <<app, pc, cur, faults, lastGen, seen, indexLog, modLog, tasks, norm>>

\* a rejection that generate swallows: the invocation goes on
Swallowed == "write"

\* generate has no try/catch: the rejection of Promise.all ends the invocation
AfterReject == "failed"

\* one Deno.writeTextFile of writePromises settles; the first that rejects
\* rejects Promise.all, and generate with it
RunWrite(p, w) ==
  LET write == WritesOf(procs[p].cur)[w]
  IN /\ procs[p].pc \in {"write", "failed"}
     /\ w \in procs[p].pending
     /\ IF CanWrite(fs, write.path)
        THEN /\ fs' = Write(fs, write.path, write.content)
             /\ procs' = [procs EXCEPT ![p].pending = @ \ {w}]
             /\ last' = last
        ELSE /\ fs' = fs
             /\ procs' = [procs EXCEPT ![p].pending = @ \ {w},
                                       ![p].pc = AfterReject,
                                       ![p].result = "error"]
             /\ last' = IF procs[p].pc = "write"
                        THEN Ended("generate", "error", "write") ELSE last
     /\ UNCHANGED <<app, order, pc, cur, calls, faults, lastGen, seen, indexLog, modLog,
                  tasks, norm>>

\* after generate has rejected, the process ends: the writes still under way
\* are not waited for
RunExit(p) ==
  /\ procs[p].pc = "failed"
  /\ procs' = [procs EXCEPT ![p] = IdleProc]
  /\ UNCHANGED <<app, fs, order, pc, cur, calls, faults, last, lastGen, seen, indexLog,
               modLog, tasks, norm>>

\* a join that does not wait
NotAwaited(pending) == TRUE

\* await Promise.all(writePromises)
AllWritten(pending) == pending = {}

\* getAllHandlers of updateTypeIndex, and the new handler if the scan lacks it
RunScan(p) ==
  /\ procs[p].pc = "write"
  /\ AllWritten(procs[p].pending)
  /\ procs' =
       [procs EXCEPT
          ![p].pc = "barrel",
          ![p].handlers =
            TypeIndexHandlers(fs, procs[p].cur.type, order[procs[p].cur.type],
                              HandlerInfo(procs[p].cur.handlerName,
                                          <<"./">> \o procs[p].cur.folderName))]
  /\ UNCHANGED <<app, fs, order, pc, cur, calls, faults, last, lastGen, seen, indexLog,
               modLog, tasks, norm>>

\* Deno.writeTextFile(indexPath, indexContent) of updateTypeIndex
RunBarrel(p) ==
  LET type == procs[p].cur.type
      indexContent == generateTypeIndexContent(type, procs[p].handlers)
  IN /\ procs[p].pc = "barrel"
     /\ fs' = Write(fs, TypeIndexPath(type), indexContent)
     /\ indexLog' = [type |-> type,
                     before |-> HandlerItems(BarrelOf(fs, type)),
                     after |-> HandlerItems(indexContent)]
     /\ procs' = [procs EXCEPT ![p].pc = "module"]
     /\ UNCHANGED <<app, order, pc, cur, calls, faults, last, lastGen, seen, modLog,
                  tasks, norm>>

\* updateServiceModule, then generate returns
RunModule(p) ==
  LET r == updateServiceModule(fs, app, FALSE, FALSE)
  IN /\ procs[p].pc = "module"
     /\ fs' = r.fs
     /\ modLog' = ModLogOf(r, modLog)
     /\ procs' = [procs EXCEPT ![p] = IdleProc]
     /\ last' = Ended("generate", "ok", "")
     /\ UNCHANGED <<app, order, pc, cur, calls, faults, lastGen, seen, indexLog, tasks,
                  norm>>

NextRun ==
  \E p \in Processes :
    \/ \E name \in RunNames : RunStart(p, name)
    \/ \E w \in {"main", "index", "handler"} : RunWrite(p, w)
    \/ RunExit(p)
    \/ RunScan(p)
    \/ RunBarrel(p)
    \/ RunModule(p)

SpecRun == InitRun /\ [][NextRun]_vars

(***************************************************************************)
(* Properties                                                              *)
(***************************************************************************)
Occurrences(s, x) == Cardinality({i \in DOMAIN s : s[i] = x})

Has(s, x) == Occurrences(s, x) > 0

NoDuplicates(s) == \A i, j \in DOMAIN s : i # j => s[i] # s[j]

FirstPos(s, x) ==
  IF \E i \in DOMAIN s : s[i] = x THEN SetMin({i \in DOMAIN s : s[i] = x}) ELSE 0

RECURSIVE IsSubsequence(_, _)
IsSubsequence(a, b) ==
  IF a = <<>> THEN TRUE
  ELSE IF b = <<>> THEN FALSE
  ELSE IF Head(a) = Head(b) THEN IsSubsequence(Tail(a), Tail(b))
  ELSE IsSubsequence(a, Tail(b))

ModuleFile == IF IsFile(fs, ModulePath(app)) THEN fs[ModulePath(app)].content ELSE <<>>

\* the position of the bracket that closes the one at position open
RECURSIVE ClosingBracket(_, _, _)
ClosingBracket(content, k, depth) ==
  IF k > Len(content) THEN 0
  ELSE IF content[k] = "[" THEN ClosingBracket(content, k + 1, depth + 1)
  ELSE IF content[k] = "]"
       THEN IF depth = 0 THEN k ELSE ClosingBracket(content, k + 1, depth - 1)
  ELSE ClosingBracket(content, k + 1, depth)

\* the elements of a bracketed list: the lexemes between its commas, those of
\* an inner array kept with the element that holds it, white space left out
RECURSIVE SplitElements(_, _, _, _)
SplitElements(s, depth, element, done) ==
  IF s = <<>> THEN (IF element = <<>> THEN done ELSE Append(done, element))
  ELSE LET x == Head(s)
       IN IF x \in WhiteSpace THEN SplitElements(Tail(s), depth, element, done)
          ELSE IF x = "," /\ depth = 0
          THEN SplitElements(Tail(s), depth, <<>>,
                             IF element = <<>> THEN done ELSE Append(done, element))
          ELSE IF x = "["
          THEN SplitElements(Tail(s), depth + 1, Append(element, x), done)
          ELSE IF x = "]"
          THEN SplitElements(Tail(s), depth - 1, Append(element, x), done)
          ELSE SplitElements(Tail(s), depth, Append(element, x), done)

\* the elements of the providers array
ProvidersElements(content) ==
  LET open == ProvidersMatch(content).open
      close == ClosingBracket(content, open + 1, 0)
  IN SplitElements(SubSeq(content, open + 1, close - 1), 0, <<>>, <<>>)

HasProvidersArray(content) == ProvidersStarts(content) # {}

\* the last updateServiceModule read the module file and wrote it back
Patched == modLog.calls > 0 /\ ~modLog.skeleton /\ modLog.written

\* the last updateServiceModule found no module file and wrote one
Created == modLog.calls > 0 /\ ~modLog.existed /\ modLog.written

\* the identifier that follows "export class " in a module file
ExportedClass(content) ==
  IF Has(content, "export class ")
  THEN WordRun(content, FirstPos(content, "export class ") + 1)
  ELSE <<>>

ComponentWritten(f, c) ==
  LET t == getTemplates(c.type, c.className, c.handlerName, c.baseFileName)
  IN /\ IsFile(f, MainFilePath(c.type, c.folderName, c.baseFileName))
     /\ f[MainFilePath(c.type, c.folderName, c.baseFileName)].content = t.mainContent
     /\ IsFile(f, HandlerFilePath(c.type, c.folderName, c.baseFileName))
     /\ f[HandlerFilePath(c.type, c.folderName, c.baseFileName)].content
          = t.handlerContent
     /\ IsFile(f, IndexFilePath(c.type, c.folderName))
     /\ f[IndexFilePath(c.type, c.folderName)].content = t.indexContent

C4_ProvidersKept ==
  (Patched /\ HasProvidersArray(modLog.before)) =>
     /\ HasProvidersArray(ModuleFile)
     /\ IsSubsequence(ProvidersElements(modLog.before), ProvidersElements(ModuleFile))
     /\ \A i \in DOMAIN AggregateImports :
          Occurrences(ModuleFile, AggregateImports[i])
            = IF Occurrences(modLog.before, AggregateImports[i]) > 0
              THEN Occurrences(modLog.before, AggregateImports[i]) ELSE 1
     /\ \A i \in DOMAIN HandlerArrays :
          IF Occurrences(modLog.before, HandlerArrays[i]) > 0
          THEN Occurrences(ModuleFile, HandlerArrays[i])
                 = Occurrences(modLog.before, HandlerArrays[i])
          ELSE /\ Occurrences(ModuleFile, HandlerArrays[i]) = 1
               /\ Has(ProvidersElements(ModuleFile), <<HandlerArrays[i]>>)

\* C5: the module file after updateServiceModule is the file before it with
\* lexemes inserted: nothing of the original is removed or moved.
C5_OnlyInserts == Patched => IsSubsequence(modLog.before, ModuleFile)

\* C6: updateServiceModule never writes the skeleton over a module file that
\* exists.
C6_SkeletonOnlyWhenAbsent == ~(modLog.existed /\ modLog.skeleton /\ modLog.written)

\* C7: updateServiceModule applied to a module file that updateServiceModule
\* wrote leaves the file as it is.
C7_Idempotent ==
  (Patched /\ modLog.wasOutput) => ModuleFile = modLog.before

C7_Witness ==
  /\ Patched
  /\ modLog.wasOutput
  /\ modLog.calls >= 2
  /\ Has(ModuleFile, "FooService")
  /\ Has(ModuleFile, "...CommandHandlers")

C9_Skeleton ==
  Created =>
     /\ \A i \in DOMAIN AggregateImports : Occurrences(ModuleFile, AggregateImports[i]) = 1
     /\ \A i \in DOMAIN HandlerArrays :
          /\ Occurrences(ModuleFile, HandlerArrays[i]) = 1
          /\ Has(ProvidersElements(ModuleFile), <<HandlerArrays[i]>>)
     /\ ExportedClass(ModuleFile) = toPascalCase(app) \o ModuleWord

\* C10: initializeService fails with "does not exist" when apps/<app> is
\* absent and with "exists but is not a directory" when it is a file, and in
\* both cases nothing has been created; it succeeds when it is a directory.
C10_PreconditionFirst ==
  [][calls' # calls =>
       /\ ~Exists(fs, <<>>) =>
            (last' = Ended("init", "error", "does not exist") /\ fs' = fs)
       /\ IsFile(fs, <<>>) =>
            (last' = Ended("init", "error", "exists but is not a directory")
               /\ fs' = fs)
       /\ IsDir(fs, <<>>) =>
            (last' = Ended("init", "ok", "") /\ \A p \in LayoutDirs : IsDir(fs', p))]_vars

C10_Witness ==
  /\ last = Ended("init", "error", "exists but is not a directory")
  /\ fs = RootFile

\* no file lies where the layout wants a directory
NoFileOnLayout(f) == \A p \in LayoutDirs : ~IsFile(f, p)

C12_NoOrderingDependency ==
  (IsDir(fs, <<>>) /\ NoFileOnLayout(fs)) =>
     /\ ~tasks.failed
     /\ last.result # "error"
     /\ (pc = "idle" /\ last = Ended("init", "ok", "")) =>
          (Cardinality(LayoutDirs) = 17 /\ \A p \in LayoutDirs : IsDir(fs, p))

\* the child has created the parent between the parent's stat and its ensureDir
C12_Witness ==
  /\ pc = "layout"
  /\ NoFileOnLayout(fs)
  /\ <<Seg("src"), Seg("application")>> \in tasks.absent
  /\ IsDir(fs, <<Seg("src"), Seg("application"), Seg("commands")>>)
  /\ <<Seg("src"), Seg("application"), Seg("commands")>> \in tasks.traced

\* where the components of a kind are said to go
ClaimedFolder(type) ==
  CASE type = "command" -> <<Seg("src"), Seg("application"), Seg("commands")>>
    [] type = "query" -> <<Seg("src"), Seg("application"), Seg("queries")>>
    [] type = "event" -> <<Seg("src"), Seg("application"), Seg("events")>>
    [] type = "usecase" -> <<Seg("src"), Seg("application"), Seg("usecases")>>
    [] type = "service" -> <<Seg("src"), Seg("domain"), Seg("services")>>

\* the files a component of the kind is said to consist of
ClaimedFiles(c) ==
  LET folder == Append(ClaimedFolder(c.type), c.folderName)
  IN {Append(folder, c.baseFileName \o <<".", c.type, ".ts">>),
      Append(folder, Seg("index.ts"))}
       \cup (IF c.type \in {"command", "query", "event"}
             THEN {Append(folder, c.baseFileName \o <<".handler.ts">>)} ELSE {})

EndsWithIgnoringCase(s, suf) == EndsWith(LowerAll(s), LowerAll(suf))

NeverDoubleAppends ==
  /\ EndsWithIgnoringCase(norm.suffixed, norm.suffix)
  /\ EndsWithIgnoringCase(norm.name, norm.suffix) => norm.suffixed = norm.name
  /\ norm.again = norm.suffixed
  /\ norm.classAgain = norm.className

C15_RoundTripStable == norm.done => norm.roundAgain = norm.round

\* a name whose Pascal form is changed by the first round trip
C15_Witness ==
  /\ norm.done
  /\ norm.round # norm.pascal
  /\ norm.roundAgain = norm.round

(***************************************************************************)
(* C16.  The folder name and the file base name that generate derives are  *)
(* kebab-case (lower-case letters, digits and hyphens only) for a raw name *)
(* in kebab-case, in PascalCase or in snake_case.                          *)
(***************************************************************************)
\* words of lower-case letters and digits, joined by the separator
IsJoinedWords(s, sep) ==
  /\ s # <<>>
  /\ \A i \in DOMAIN s : s[i] \in (LowerChars \cup DigitChars \cup {sep})
  /\ s[1] \in LowerChars
  /\ s[Len(s)] # sep
  /\ \A i \in 1..(Len(s) - 1) : ~(s[i] = sep /\ s[i + 1] = sep)

AcceptedStyle(s) ==
  IsJoinedWords(s, "-") \/ IsPascal(s) \/ IsJoinedWords(s, "_")

OnlyKebabChars(s) ==
  \A i \in DOMAIN s : s[i] \in (LowerChars \cup DigitChars \cup {"-"})

C16_KebabNames ==
  (norm.done /\ AcceptedStyle(norm.name)) =>
     (OnlyKebabChars(norm.folderName) /\ OnlyKebabChars(norm.baseFileName))

(***************************************************************************)
(* C17.  For every raw name passed to generate, a name that contains the   *)
(* word Handler included, the type barrel written by the call imports from *)
(* the component's folder the handler and the component's className, and   *)
(* re-exports that className.                                              *)
(***************************************************************************)
ImportedFrom(barrel, path) ==
  {barrel[i].name : i \in {j \in DOMAIN barrel :
                             barrel[j].t = "import" /\ barrel[j].path = path}}

C17_BarrelExportsClassName ==
  (pc = "module" /\ cur.type \in Kinds) =>
     /\ ImportedFrom(BarrelOf(fs, cur.type), <<"./">> \o cur.folderName)
          = {cur.handlerName, cur.className}
     /\ cur.className \in BarrelExports(BarrelOf(fs, cur.type))

(***************************************************************************)
(* C18.  The barrel written by updateTypeIndex is a function of the scan   *)
(* of the disk and of the new entry: with another text in the barrel the   *)
(* call writes the same text, and every handler it lists is the new entry  *)
(* or is exported by the handler file of a component directory on disk, so *)
(* that a handler whose directory was deleted is no longer listed.         *)
(***************************************************************************)
\* the step is a call of updateTypeIndex that wrote the barrel
IndexWritten ==
  /\ calls' = calls + 1
  /\ last' = Ended("updateTypeIndex", "ok", "")

\* a text the barrel may have held before the call, unlike any the call writes
PreviousBarrel ==
  generateTypeIndexContent(IndexType,
    <<HandlerOf(DeleteUser), HandlerOf(UpdateUser), HandlerOf(CreateUser)>>)

\* the handler names exported by the handler files of the component directories
OnDisk(f) ==
  {extractHandlerName(f[p].content) :
     p \in {q \in DOMAIN f :
              /\ IsFile(f, q)
              /\ Len(q) = Len(TypePath(IndexType)) + 2
              /\ SubSeq(q, 1, Len(TypePath(IndexType))) = TypePath(IndexType)
              /\ q[Len(q)] = q[Len(q) - 1] \o <<".handler.ts">>}}

C18_BarrelFromScan ==
  [][IndexWritten =>
       /\ generateTypeIndexContent(IndexType,
            TypeIndexHandlers(Write(fs, TypeIndexPath(IndexType), PreviousBarrel), IndexType,
                              order[IndexType],
                              HandlerInfo(cur'.handlerName, <<"./">> \o cur'.folderName)))
            = BarrelOf(fs', IndexType)
       /\ Range(HandlerItems(BarrelOf(fs', IndexType)))
            \subseteq (OnDisk(fs) \cup {cur'.handlerName})]_vars

\* a call has dropped a handler that the barrel listed: its directory is gone
C18_Witness ==
  /\ last = Ended("updateTypeIndex", "ok", "")
  /\ HandlerItems(BarrelOf(fs, IndexType)) = indexLog.after
  /\ \E name \in Range(indexLog.before) : name \notin Range(indexLog.after)
  /\ OnDisk(fs) # {}

(***************************************************************************)
(* C19.  Two calls of updateTypeIndex in a row for the same folder, with   *)
(* two different handlers, leave a barrel that lists both handlers and     *)
(* re-exports both main classes, whatever is on disk (the module-manager   *)
(* test has no handler file on disk).                                      *)
(***************************************************************************)
C19_Accumulates ==
  [][(/\ last = Ended("updateTypeIndex", "ok", "")
      /\ IndexWritten
      /\ cur'.handlerName # cur.handlerName) =>
       /\ {cur.handlerName, cur'.handlerName}
            \subseteq Range(HandlerItems(BarrelOf(fs', IndexType)))
       /\ {MainClassName(cur.handlerName), MainClassName(cur'.handlerName)}
            \subseteq BarrelExports(BarrelOf(fs', IndexType))]_vars

(***************************************************************************)
(* C20.  A call of updateTypeIndex when the type folder does not exist is  *)
(* not an error: it ends well and leaves a barrel with the new entry only. *)
(***************************************************************************)
C20_MissingFolder ==
  [][(calls' = calls + 1 /\ ~IsDir(fs, TypePath(IndexType))) =>
       /\ last'.result = "ok"
       /\ HandlerItems(BarrelOf(fs', IndexType)) = <<cur'.handlerName>>]_vars

(***************************************************************************)
(* C21.  An entry of the type folder that is no component (a directory     *)
(* without <dir>.handler.ts, a directory whose handler file exports no     *)
(* class ending in Handler, a plain file) raises no error and is left out  *)
(* of the list, and every directory with a valid handler file is listed.   *)
(***************************************************************************)
C21_ScanSkip ==
  [][(calls' = calls + 1 /\ IsDir(fs, TypePath(IndexType))) =>
       /\ last'.result = "ok"
       /\ Range(HandlerItems(BarrelOf(fs', IndexType)))
            = (OnDisk(fs) \ {<<>>}) \cup {cur'.handlerName}]_vars

\* a barrel written over a folder where a component comes after the entries
\* that are no components: it lists the component and not the others
C21_Witness ==
  /\ last = Ended("updateTypeIndex", "ok", "")
  /\ HandlerItems(BarrelOf(fs, IndexType)) = indexLog.after
  /\ IsFile(fs, TypePath(IndexType) \o <<Legacy, Legacy \o <<".handler.ts">>>>)
  /\ IsFile(fs, Append(TypePath(IndexType), Notes))
  /\ Len(order[IndexType]) = Len(ForeignEntries) + 1
  /\ order[IndexType][Len(order[IndexType])] \notin Range(ForeignEntries)
  /\ Len(indexLog.after) = 2

(***************************************************************************)
(* C22.  For every CQRS kind and every raw name, the pattern of            *)
(* extractHandlerName applied to the handler file that generate renders    *)
(* yields the handlerName of the component.                                *)
(***************************************************************************)
C22_MarkerAgreed ==
  norm.done => \A k \in Kinds : norm.extracted[k] = norm.handlerName[k]

(***************************************************************************)
(* C23.  The aggregate imports missing from an existing module file are    *)
(* inserted, in the order commands, events, queries, immediately after the *)
(* last import statement the file held, and are put at the head of the     *)
(* file only when it held no import statement.                             *)
(***************************************************************************)
\* the aggregate imports the text lacks, in the order of the loop
MissingImports(content) ==
  LET IsMissing(statement) == ~Includes(content, statement)
  IN SelectSeq(AggregateImports, IsMissing)

\* the statements, one a line
JoinLines(statements) ==
  Flatten([i \in DOMAIN statements |->
             IF i = 1 THEN <<statements[i]>> ELSE <<NL, statements[i]>>])

ImportsAfterLast(before, after) ==
  LET block == JoinLines(MissingImports(before))
      statements == {i \in DOMAIN before : before[i] \in ImportStatements}
  IN IF block = <<>> THEN TRUE
     ELSE IF statements = {}
          THEN /\ Len(after) >= Len(block) + 2
               /\ SubSeq(after, 1, Len(block) + 2) = block \o <<NL, NL>>
          ELSE LET end == SetMax(statements)
               IN /\ Len(after) >= end + 1 + Len(block)
                  /\ SubSeq(after, 1, end + 1 + Len(block))
                       = SubSeq(before, 1, end) \o <<NL>> \o block

C23_ImportsAfterLast == Patched => ImportsAfterLast(modLog.before, ModuleFile)

(***************************************************************************)
(* C24.  On a module file with a providers array, each spread token the    *)
(* file lacks becomes a new trailing element of that array: afterwards the *)
(* elements of the array, up to the bracket that closes it, are those it   *)
(* held followed by the missing tokens, also when an element holds square  *)
(* brackets of its own.                                                    *)
(***************************************************************************)
\* the spread tokens the text lacks, each as an element, in the order of the loop
MissingTokens(content) ==
  LET IsMissing(token) == ~Includes(content, token)
      missing == SelectSeq(HandlerArrays, IsMissing)
  IN [i \in DOMAIN missing |-> <<missing[i]>>]

TokensTrail(before, after) ==
  /\ HasProvidersArray(after)
  /\ ProvidersElements(after) = ProvidersElements(before) \o MissingTokens(before)

C24_TokensTrail ==
  (Patched /\ HasProvidersArray(modLog.before)) => TokensTrail(modLog.before, ModuleFile)

(***************************************************************************)
(* C25.  After every updateServiceModule that wrote the module file, the   *)
(* file holds the three spread tokens, whatever it held before: where      *)
(* there was no providers array, a providers property has been injected.   *)
(***************************************************************************)
C25_AllTokens ==
  (modLog.calls > 0 /\ modLog.written) =>
     \A i \in DOMAIN HandlerArrays : Includes(ModuleFile, HandlerArrays[i])

(***************************************************************************)
(* C26.  The steps of one generate keep their order: a component file is   *)
(* written only once the component directory exists, the scan of the type  *)
(* folder starts only when every write of the invocation has completed,    *)
(* updateServiceModule runs only after the invocation has written the      *)
(* barrel, and success is reported only by the step that ends              *)
(* updateServiceModule.                                                    *)
(***************************************************************************)
\* the step is one of process p
StepOf(p) == procs'[p].pc # procs[p].pc \/ procs'[p].pending # procs[p].pending

ComponentFilesWritten(f, c) ==
  \A w \in Dispatched(c) :
    IsFile(f, WritesOf(c)[w].path) /\ f[WritesOf(c)[w].path].content = WritesOf(c)[w].content

C26_FixedOrder ==
  [][\A p \in Processes :
       /\ (StepOf(p) /\ procs[p].pc = "idle" /\ procs'[p].pc = "write") =>
             /\ IsDir(fs', BasePath(procs'[p].cur.type, procs'[p].cur.folderName))
             /\ \A q \in DOMAIN fs' : IsFile(fs', q) => (IsFile(fs, q) /\ fs'[q] = fs[q])
       /\ (StepOf(p) /\ procs[p].pc \in {"write", "failed"} /\ fs' # fs) =>
             IsDir(fs, BasePath(procs[p].cur.type, procs[p].cur.folderName))
       /\ (StepOf(p) /\ procs'[p].pc = "barrel") =>
             /\ procs[p].pc = "write"
             /\ procs[p].pending = {}
             /\ ComponentFilesWritten(fs, procs[p].cur)
             /\ fs' = fs
       /\ (StepOf(p) /\ procs'[p].pc = "module") =>
             /\ procs[p].pc = "barrel"
             /\ IsFile(fs', TypeIndexPath(procs[p].cur.type))
             /\ modLog' = modLog
       /\ (StepOf(p) /\ modLog' # modLog) => procs[p].pc = "module"
       /\ (StepOf(p) /\ procs[p].pc # "failed" /\ procs'[p].pc = "idle") =>
             /\ procs[p].pc = "module"
             /\ modLog'.calls = modLog.calls + 1
             /\ last' = Ended("generate", "ok", "")]_vars

\* two invocations have run side by side and both have reported success
C26_Witness ==
  /\ calls = 2
  /\ \A p \in Processes : procs[p].pc = "idle"
  /\ last = Ended("generate", "ok", "")
  /\ modLog.calls = 2
  /\ \A name \in RunNames : ComponentFilesWritten(fs, RunDescriptor(name))
  /\ IsFile(fs, TypeIndexPath(RunType))
  /\ IsFile(fs, ModulePath(app))

(***************************************************************************)
(* C27.  A write of a component file that fails ends the invocation with   *)
(* the error: the invocation goes on to no scan, barrel or module file,    *)
(* its later steps leave the barrel and the module file as they are, and   *)
(* no step takes a file off the disk or undoes a write.                    *)
(***************************************************************************)
C27_WriteFailureFatal ==
  [][\A p \in Processes :
       /\ (StepOf(p) /\ procs[p].result # "error" /\ procs'[p].result = "error") =>
             /\ procs'[p].pc = "failed"
             /\ last' = Ended("generate", "error", "write")
             /\ fs' = fs
       /\ (StepOf(p) /\ procs[p].pc = "failed") =>
             /\ procs'[p].pc \in {"failed", "idle"}
             /\ BarrelOf(fs', RunType) = BarrelOf(fs, RunType)
             /\ Exists(fs', ModulePath(app)) = Exists(fs, ModulePath(app))
             /\ Exists(fs, ModulePath(app)) => fs'[ModulePath(app)] = fs[ModulePath(app)]
             /\ modLog' = modLog /\ indexLog' = indexLog
       /\ \A q \in DOMAIN fs : q \in DOMAIN fs' /\ (IsFile(fs, q) => IsFile(fs', q))]_vars

\* the write of index.ts has failed: generate has ended with the error, the
\* two other files are on disk, and there is no barrel and no module file
C27_Witness ==
  /\ last = Ended("generate", "error", "write")
  /\ procs[1].pc = "failed"
  /\ procs[1].pending = {}
  /\ procs[2].pc = "idle"
  /\ IsDir(fs, WritesOf(procs[1].cur).index.path)
  /\ IsFile(fs, WritesOf(procs[1].cur).main.path)
  /\ IsFile(fs, WritesOf(procs[1].cur).handler.path)
  /\ ~Exists(fs, TypeIndexPath(RunType))
  /\ ~Exists(fs, ModulePath(app))

RaceLost ==
  /\ calls = 2
  /\ \A p \in Processes : procs[p].pc = "idle"
  /\ last = Ended("generate", "ok", "")
  /\ IsFile(fs, TypeIndexPath(RunType))
  /\ \E h \in OnDisk(fs) \ {<<>>} :
        \A i \in DOMAIN HandlerItems(BarrelOf(fs, RunType)) :
           HandlerItems(BarrelOf(fs, RunType))[i] # h

C30_Overwrites ==
  \A p \in Processes :
    procs[p].pc \in {"barrel", "module"} =>
      \A w \in Dispatched(procs[p].cur) :
        /\ IsFile(fs, WritesOf(procs[p].cur)[w].path)
        /\ fs[WritesOf(procs[p].cur)[w].path].content = WritesOf(procs[p].cur)[w].content

\* the re-run of an edited component is half way: the primary file is the
\* template again, the local index.ts still starts with the hand edit
C30_Witness ==
  /\ procs[1].pc = "write"
  /\ procs[1].cur = RunDescriptor(CreateUser)
  /\ procs[1].pending = {"index"}
  /\ procs[2].pc = "idle"
  /\ IsFile(fs, WritesOf(procs[1].cur).main.path)
  /\ fs[WritesOf(procs[1].cur).main.path].content = WritesOf(procs[1].cur).main.content
  /\ IsFile(fs, WritesOf(procs[1].cur).index.path)
  /\ fs[WritesOf(procs[1].cur).index.path].content = HandEdit \o WritesOf(procs[1].cur).index.content

(***************************************************************************)
(* C29.  The write set of generate: a step of an invocation creates or     *)
(* changes no file but the component's own files in its own subdirectory,  *)
(* the barrel of the kind's type folder and the app's module file, and it  *)
(* takes nothing off the disk.  The files of the other components and the  *)
(* barrels of the other kinds stay as they are.                            *)
(***************************************************************************)
WriteSet(c) ==
  ClaimedFiles(c) \cup {Append(ClaimedFolder(c.type), Seg("index.ts")),
                        <<Seg("src"), app \o <<".module.ts">>>>}

Touched(f, g) == {p \in DOMAIN g : p \notin DOMAIN f \/ g[p] # f[p]}

C29_BoundedWriteSet ==
  [][pc # "idle" =>
       /\ \A p \in DOMAIN fs : p \in DOMAIN fs' /\ (IsFile(fs, p) => IsFile(fs', p))
       /\ \A k \in AllKinds \ {cur.type} :
            Append(ClaimedFolder(k), Seg("index.ts")) \notin Touched(fs, fs')
       /\ \A p \in Touched(fs, fs') : IsFile(fs', p) /\ p \in WriteSet(cur)]_vars

====
